---- MODULE Spec2Model ----
(***************************************************************************)
(* A model of WebSocketCommunicator (src/websocket_communication.py): the  *)
(* structured question/answer/ack protocol with deduplication and          *)
(* turn-taking.  asyncio is cooperative: the code between two awaits runs  *)
(* atomically, so every action below is one such segment of a coroutine.   *)
(***************************************************************************)
EXTENDS Integers, Sequences, FiniteSets, Bags, TLC

(* ------------------------------ bounds -------------------------------- *)
\* server-accepted connection objects per communicator
MaxServerConns == 2
\* outbound connection objects (successful connect_as_client calls)
MaxClientConns == 2
\* distinct message ids an outside peer puts into frames
MaxEnvId == 2
\* frames received by a communicator from outside peers
MaxRecv == 2
\* send_question calls per communicator
MaxSend == 2
\* create_message calls an application makes on a communicator
MaxCreate == 3
\* distinct message ids a peer sends to fill the deduplication cache
MaxFill == 1100
\* frames that repeat an id sent before, in the runs that fill the cache
MaxReplay == 2
\* connect_as_client, stop and get_stats calls per communicator
MaxAdmin == 2

(* --------------------------- program constants ------------------------ *)
\* self.max_cache_size = 1000
max_cache_size == 1000
\* list(self.message_cache)[:100]
EvictBatch == 100

(* ------------------------------ universe ------------------------------ *)
Comms == {"A", "B"}
ServerConns == {<<"srv", i>> : i \in 1..MaxServerConns}
ClientConns == {<<"cli", i>> : i \in 1..MaxClientConns}
Conns == ServerConns \cup ClientConns
\* Python None for a websocket reference
NoConn == <<"none", 0>>
\* Python None / a missing key for message_id and in_reply_to (falsy)
NoId == 0
\* a key that is missing from the received JSON object
Missing == "<missing>"
MissingContent == <<Missing>>
EnvIds == 1..MaxEnvId
Contents == {<<"ping">>}

\* str(uuid.uuid4()): a fresh identifier, never one an outside peer can make
\* up.  Which value is drawn does not matter, only that no two draws agree:
\* the n-th draw of the coroutine s of communicator name (s is the connection
\* of a receive loop, NoConn for the callers of send_question) is named by
\* the negative number below, different for different (name, s, n).
StreamNo(name, s) ==
    (IF name = "A" THEN 0 ELSE MaxServerConns + MaxClientConns + 1)
    + (IF s = NoConn THEN 1
       ELSE IF s[1] = "srv" THEN 1 + s[2] ELSE 1 + MaxServerConns + s[2])
Uuid(name, s, n) == -(n * 2 * (MaxServerConns + MaxClientConns + 1) + StreamNo(name, s))

(* ------------------------------ messages ------------------------------ *)
\* datetime.now(timezone.utc).isoformat(): the reading of the clock, a value
\* that no code of the module looks at
UtcNow == "<utc now>"

\* a message factory that leaves out the sender
UnsignedMessage(name, s, n, content, msg_type, in_reply_to) ==
    [message_id |-> Uuid(name, s, n), sender |-> Missing, type |-> msg_type,
     content |-> content, in_reply_to |-> in_reply_to, timestamp |-> UtcNow]

\* create_message, called for the n-th time by coroutine s: the dictionary
\* of lines 94-101, key for key
create_message(name, s, n, content, msg_type, in_reply_to) ==
    [message_id |-> Uuid(name, s, n), sender |-> name, type |-> msg_type,
     content |-> content, in_reply_to |-> in_reply_to, timestamp |-> UtcNow]

\* the value of a loop's message_data before its first frame
NoMsg ==
    [message_id |-> NoId, sender |-> Missing, type |-> "<none>",
     content |-> MissingContent, in_reply_to |-> NoId]

\* a frame whose text json.loads rejects (JSONDecodeError)
NotJson ==
    [message_id |-> NoId, sender |-> Missing, type |-> "<not json>",
     content |-> MissingContent, in_reply_to |-> NoId]

\* str.lower() on the type field
Lower(t) ==
    CASE t = "QUESTION" -> "question"
      [] t = "ANSWER" -> "answer"
      [] t = "ACK" -> "ack"
      [] OTHER -> t

\* message['sender'] and message['content'] in the handlers' first line
\* raise KeyError when the key is missing
HasKeys(m) == m.sender # Missing /\ m.content # MissingContent

\* content of the acknowledgment: f"Question received: {message_id}"
AckContent(kind, m) == <<kind, ToString(m.message_id)>>

\* a registered on_question_received: what it returns for a question; the
\* application's handler may also return None/"" or raise
HandlerReply(m) == <<"pong:">> \o m.content
HandlerOutcomes == {"reply", "empty", "raise"}

(* --------------------------- deduplication ---------------------------- *)
RankIn(S, x) == Cardinality({y \in S : y < x})

\* The possible values of set(list(cache)[:100]).  A Python set iterates in
\* hash-slot order, which is unrelated to insertion order, so the batch is
\* not determined by the program.  The model takes as possible batches the
\* runs of EvictBatch ids in cyclic ascending order that start at a multiple
\* of EvictBatch: a family that contains "the lowest ids" as well as a run
\* with the highest id.
EvictionBatches(S) ==
    LET n == Cardinality(S)
        r == [x \in S |-> RankIn(S, x)]
    IN  { {x \in S : ((r[x] - k) % n) < EvictBatch} :
            k \in {j * EvictBatch : j \in 0..((n - 1) \div EvictBatch)} }

\* a receive loop that has lost its connection
NoWebsocket(p, c) == NoConn

\* a cache that reports nothing as seen
NeverDuplicate(cache, message_id) == FALSE

\* _is_duplicate_message: the value returned
_is_duplicate_message(cache, message_id) == message_id \in cache

\* a cache that never evicts
CacheGrows(cache, message_id) == {cache \cup {message_id}}

\* _is_duplicate_message: the possible values of message_cache afterwards
CacheAfter(cache, message_id) ==
    IF message_id \in cache THEN {cache}
    ELSE LET added == cache \cup {message_id}
         IN  IF Cardinality(added) > max_cache_size
             THEN {added \ batch : batch \in EvictionBatches(added)}
             ELSE {added}

(* ------------------------------- state -------------------------------- *)
VARIABLES
    \* attributes of WebSocketCommunicator, one value per communicator
    server,              \* "none" | "running" | "closed"
    client_websocket,    \* a connection or NoConn
    connected_clients,   \* set of server-accepted connections
    message_cache,       \* set of message ids
    pending_questions,   \* function: message id -> question message
    conversation_state,  \* "idle" | "waiting_for_answer"
    on_question_received, on_answer_received, on_ack_received, \* BOOLEAN: set
    target_port,         \* "none" | "env" | the communicator dialled
    \* the environment of the communicator
    conn,     \* connection objects: "unused" | "open" | "closed_ok" | "closed_err"
    peer,     \* who is at the other end of a connection
    inbox,    \* frames in flight to a connection whose peer is a communicator
    \* coroutines
    loop,     \* receive loop of each connection
    bcast,    \* send_question calls suspended inside broadcast_message
    stopping, \* stop() suspended in server.wait_closed()
    nextId,   \* number of uuid4 values each coroutine has drawn so far
    \* observation
    ret,      \* what the last call of the public API returned
    sent,     \* frames put on the wire of each connection, in order
    calls,    \* bag of the handler invocations of each communicator
    returned, \* ids returned by send_question
    answered, \* ids q for which an Answer with in_reply_to = q was dispatched
    evicted,  \* ids that an eviction batch has removed from message_cache
    nrecv, nsend, nadmin, \* frames sent by outside peers, send_question calls, other calls
    limit     \* the bounds of the run

attrs == <<server, client_websocket, connected_clients, message_cache,
           pending_questions, conversation_state, on_question_received,
           on_answer_received, on_ack_received, target_port>>
envir == <<conn, peer, inbox>>
coros == <<loop, bcast, stopping, nextId>>
obs == <<ret, sent, calls, returned, answered, evicted, nrecv, nsend, nadmin, limit>>
vars == <<attrs, envir, coros, obs>>

NoPeer == [comm |-> "none", conn |-> NoConn]
EnvPeer == [comm |-> "env", conn |-> NoConn]

\* the receive loop of a connection: _server_handler for an accepted one,
\* _client_message_handler for an outbound one
\*   pc: "none" | "recv" | "acked" | "handler" | "ended"
\*   websocket: the websocket argument of the _handle_message call in progress
\*   msg: message_data of the _handle_message call in progress
\*   errors: how often the loop has caught and logged a failure of a custom
\*           handler (logger.error in the except clauses around the calls)
\*   discards: how many frames the loop has logged and dropped as invalid
\*           JSON (line 287), without message_id (line 126) or of unknown
\*           type (line 140)
NoLoop ==
    [pc |-> "none", websocket |-> NoConn, msg |-> NoMsg, errors |-> 0,
     discards |-> 0]

\* the last call of the public API: operation, target_websocket argument of
\* send_question, outcome
Call(op, target, val) == [op |-> op, target |-> target, val |-> val]
Ret(op, val) == Call(op, NoConn, val)

\* is_ready_to_send_question
is_ready_to_send_question(p) == conversation_state[p] = "idle"

\* get_stats
get_stats(p) ==
    [name |-> p,
     connected_clients |-> Cardinality(connected_clients[p]),
     has_client_connection |-> client_websocket[p] # NoConn,
     conversation_state |-> conversation_state[p],
     pending_questions |-> Cardinality(DOMAIN pending_questions[p]),
     cache_size |-> Cardinality(message_cache[p])]

\* __init__, for every communicator; targets gives the target_port arguments
Construct(targets, lim) ==
    /\ limit = lim
    /\ server = [p \in Comms |-> "none"]
    /\ client_websocket = [p \in Comms |-> NoConn]
    /\ connected_clients = [p \in Comms |-> {}]
    /\ message_cache = [p \in Comms |-> {}]
    /\ pending_questions = [p \in Comms |-> <<>>]
    /\ conversation_state = [p \in Comms |-> "idle"]
    /\ on_question_received = [p \in Comms |-> FALSE]
    /\ on_answer_received = [p \in Comms |-> FALSE]
    /\ on_ack_received = [p \in Comms |-> FALSE]
    /\ target_port = targets
    /\ conn = [p \in Comms |-> [c \in Conns |-> "unused"]]
    /\ peer = [p \in Comms |-> [c \in Conns |-> NoPeer]]
    /\ inbox = [p \in Comms |-> [c \in Conns |-> <<>>]]
    /\ loop = [p \in Comms |-> [c \in Conns |-> NoLoop]]
    /\ bcast = [p \in Comms |-> {}]
    /\ stopping = [p \in Comms |-> FALSE]
    /\ nextId = [p \in Comms |-> [c \in Conns \cup {NoConn} |-> 0]]
    /\ ret = [p \in Comms |-> Ret("none", "none")]
    /\ sent = [p \in Comms |-> [c \in Conns |-> <<>>]]
    /\ calls = [p \in Comms |-> EmptyBag]
    /\ returned = [p \in Comms |-> {}]
    /\ answered = [p \in Comms |-> {}]
    /\ evicted = [p \in Comms |-> {}]
    /\ nrecv = [p \in Comms |-> 0]
    /\ nsend = [p \in Comms |-> 0]
    /\ nadmin = [p \in Comms |-> 0]

(* ------------------------------ sending ------------------------------- *)
\* websocket.send succeeds on an open connection; on a closed one it raises
\* ConnectionClosed and on None AttributeError, both swallowed by
\* _send_to_websocket
CanSend(p, w) == w # NoConn /\ conn[p][w] = "open"

\* _send_to_websocket(w, m) called by communicator p; inbox0 is the value of
\* inbox the step starts from (the received frame already taken out)
_send_to_websocket(p, w, m, inbox0) ==
    IF CanSend(p, w)
    THEN /\ sent' = [sent EXCEPT ![p][w] = Append(@, m)]
         /\ inbox' = IF peer[p][w].comm \in Comms
                     THEN [inbox0 EXCEPT ![peer[p][w].comm][peer[p][w].conn] =
                                            Append(@, m)]
                     ELSE inbox0
    ELSE /\ sent' = sent
         /\ inbox' = inbox0

NoSend(inbox0) == sent' = sent /\ inbox' = inbox0

(* ------------------------- the dispatch routine ----------------------- *)
\* a transition to idle on any Answer
AnswerAlwaysIdle(p, m) ==
    /\ pending_questions' =
          [pending_questions EXCEPT ![p] =
              [q \in (DOMAIN @) \ {m.in_reply_to} |-> @[q]]]
    /\ conversation_state' = [conversation_state EXCEPT ![p] = "idle"]

\* a transition that forgets the question but stays in waiting_for_answer
AnswerForgetsOnly(p, m) ==
    /\ pending_questions' =
          [pending_questions EXCEPT ![p] =
              [q \in (DOMAIN @) \ {m.in_reply_to} |-> @[q]]]
    /\ UNCHANGED conversation_state

\* a handler that has not applied the transition when it sends the Ack
TransitionNotYet(p, m) == UNCHANGED <<pending_questions, conversation_state>>

\* the ReceiveAnswer transition of _handle_answer (lines 176-179)
AnswerTransition(p, m) ==
    IF m.in_reply_to # NoId /\ m.in_reply_to \in DOMAIN pending_questions[p]
    THEN /\ pending_questions' =
              [pending_questions EXCEPT ![p] =
                  [q \in (DOMAIN @) \ {m.in_reply_to} |-> @[q]]]
         /\ conversation_state' = [conversation_state EXCEPT ![p] = "idle"]
    ELSE UNCHANGED <<pending_questions, conversation_state>>

\* a dispatch that acknowledges Answers only
AckedAnswersOnly == {"answer"}

\* a dispatch that acknowledges Acks too
AckedAll == {"question", "answer", "ack"}

\* the message types whose handler sends an Ack: _handle_question (lines
\* 150-155) and _handle_answer (lines 182-187), not _handle_ack
AckedTypes == {"question", "answer"}

\* a dispatch that does not ask for a message_id
IdNotRequired(m) == FALSE

\* the test `if not message_id` of _handle_message (line 125)
NoMessageId(m) == m.message_id = NoId

\* What _handle_message does with message_data m up to its first await:
\*   "not_json"      json.loads raised in the receive loop
\*   "no_id"         message_id missing or falsy
\*   "duplicate"     _is_duplicate_message returned True
\*   "unknown_type"  no handler for the type
\*   "key_error"     message['sender'] / message['content'] raised
\*   "dispatched"    _handle_question / _handle_answer / _handle_ack ran
Outcome(p, m) ==
    CASE m = NotJson -> "not_json"
      [] m # NotJson /\ NoMessageId(m) -> "no_id"
      [] m.message_id # NoId /\ _is_duplicate_message(message_cache[p], m.message_id)
            -> "duplicate"
      [] OTHER -> IF Lower(m.type) \notin {"question", "answer", "ack"}
                  THEN "unknown_type"
                  ELSE IF ~HasKeys(m) THEN "key_error" ELSE "dispatched"

\* the websocket argument the receive loop c passes to _handle_message
WebsocketArg(p, c) == IF c \in ServerConns THEN c ELSE client_websocket[p]

\* a dispatch that calls the custom handlers only while the communicator is
\* not waiting for an answer
HandlerSetWhenIdle(p, t) ==
    /\ conversation_state[p] = "idle"
    /\ \/ t = "question" /\ on_question_received[p]
       \/ t = "answer" /\ on_answer_received[p]
       \/ t = "ack" /\ on_ack_received[p]

\* the custom handler slot for a message type is filled
HandlerSet(p, t) ==
    CASE t = "question" -> on_question_received[p]
      [] t = "answer" -> on_answer_received[p]
      [] t = "ack" -> on_ack_received[p]
      [] OTHER -> FALSE

\* The segment of the receive loop c of communicator p that starts with
\* frame m and runs to the next await that can keep the loop from its next
\* frame.  The handler slots do not change once the communicator is in use,
\* so the test `if self.on_..._received` that follows the await of the Ack is
\* decided here: with the slot empty the loop goes back to waiting for a frame.
_handle_message(p, c, m, inbox0) ==
    LET out == Outcome(p, m)
        t == Lower(m.type)
        w == WebsocketArg(p, c)
        ack == create_message(p, c, nextId[p][c],
                  AckContent(IF t = "question" THEN "Question received: "
                             ELSE "Answer received: ", m),
                  "ack", m.message_id)
    IN  /\ IF out \in {"not_json", "no_id", "duplicate"}
           THEN UNCHANGED <<message_cache, evicted>>
           ELSE \E cache \in CacheAfter(message_cache[p], m.message_id) :
                  /\ message_cache' = [message_cache EXCEPT ![p] = cache]
                  /\ evicted' = [evicted EXCEPT ![p] =
                        @ \cup ((message_cache[p] \cup {m.message_id}) \ cache)]
        /\ IF out = "dispatched" /\ t = "answer"
           THEN /\ AnswerTransition(p, m)
                /\ answered' = [answered EXCEPT ![p] = @ \cup {m.in_reply_to}]
           ELSE UNCHANGED <<pending_questions, conversation_state, answered>>
        /\ IF out = "dispatched" /\ t \in AckedTypes
           THEN /\ _send_to_websocket(p, w, ack, inbox0)
                /\ nextId' = [nextId EXCEPT ![p][c] = @ + 1]
                /\ loop' = IF HandlerSet(p, t)
                           THEN [loop EXCEPT ![p][c] =
                                   [@ EXCEPT !.pc = "acked", !.websocket = w, !.msg = m]]
                           ELSE loop
                /\ calls' = calls
           ELSE /\ NoSend(inbox0)
                /\ nextId' = nextId
                /\ IF out = "dispatched" /\ HandlerSet(p, t)
                   THEN /\ calls' = [calls EXCEPT ![p] =
                              @ (+) SetToBag({[handler |-> "on_ack_received", msg |-> m]})]
                        /\ loop' = [loop EXCEPT ![p][c] =
                              [@ EXCEPT !.pc = "handler", !.websocket = w, !.msg = m]]
                   ELSE /\ calls' = calls
                        /\ loop' = IF out \in {"not_json", "no_id", "unknown_type"}
                                   THEN [loop EXCEPT ![p][c].discards = @ + 1]
                                   ELSE loop
        /\ UNCHANGED <<server, client_websocket, connected_clients,
                       on_question_received, on_answer_received, on_ack_received,
                       target_port, conn, peer, bcast, stopping,
                       ret, returned, nrecv, nsend, nadmin, limit>>

\* frames an outside peer may send to p: it knows the ids of the questions p
\* has put on the wire and makes up ids of its own
KnownQuestions(p) ==
    UNION {{sent[p][c][i].message_id : i \in {j \in 1..Len(sent[p][c]) :
                                                 sent[p][c][j].type = "question"}} :
           c \in Conns}

EnvFrame(id, t, r) ==
    [message_id |-> id, sender |-> "env", type |-> t, content |-> <<"ping">>,
     in_reply_to |-> r]

\* well-formed frames: questions, answers to nothing, to an id that is no
\* question of p and to the questions of p, acks
ProtocolFrames(p) ==
    {EnvFrame(i, "question", NoId) : i \in EnvIds}
    \cup {EnvFrame(i, "answer", r) : i \in EnvIds,
                                      r \in {NoId, MaxEnvId} \cup KnownQuestions(p)}
    \cup {EnvFrame(i, "ack", r) : i \in EnvIds, r \in {MaxEnvId} \cup KnownQuestions(p)}

\* frames the wire format does not allow: no message_id, no sender, no
\* content, a type in capitals, an unknown type, no JSON
OddFrames(p) ==
    {EnvFrame(NoId, "answer", r) : r \in KnownQuestions(p)}
    \cup {[EnvFrame(1, "answer", r) EXCEPT !.sender = Missing] : r \in KnownQuestions(p)}
    \cup {[EnvFrame(1, "question", NoId) EXCEPT !.content = MissingContent]}
    \cup {EnvFrame(1, "ANSWER", r) : r \in {MaxEnvId} \cup KnownQuestions(p)}
    \cup {EnvFrame(1, "hello", NoId), NotJson}

\* the frames of a peer that fills the deduplication cache: a first Question,
\* then Acks with ids never used before, and up to MaxReplay times the first
\* Question again
IdsSent(p) ==
    message_cache[p] \cup evicted[p]
    \cup UNION {{inbox[p][c][i].message_id : i \in 1..Len(inbox[p][c])} : c \in Conns}
Probe == EnvFrame(1, "question", NoId)
FillFrames(p) ==
    LET n == Cardinality(IdsSent(p))
    IN  IF n = 0 THEN {Probe}
        ELSE (IF nrecv[p] - n < MaxReplay THEN {Probe} ELSE {})
             \cup (IF n < MaxFill THEN {EnvFrame(n + 1, "ack", 1)} ELSE {})

\* an outside peer sends frame m on connection c of p
EnvSend(p, c, m) ==
    /\ peer[p][c] = EnvPeer
    /\ conn[p][c] = "open"
    /\ inbox[p][c] = <<>>
    /\ inbox' = [inbox EXCEPT ![p][c] = <<m>>]
    /\ nrecv' = [nrecv EXCEPT ![p] = @ + 1]
    /\ UNCHANGED <<attrs, conn, peer, coros, ret, sent, calls, returned,
                   answered, evicted, nsend, nadmin, limit>>

\* a receive loop that starts a task for each frame and takes the next one
\* at once
TaskPerFrame(p, c) == loop[p][c].pc \in {"recv", "acked", "handler"}

\* the receive loop is at `async for message in websocket`: the body of the
\* loop awaits _handle_message (lines 285, 332), so the loop asks for the
\* next frame only when the call for the previous one has returned
LoopReady(p, c) == loop[p][c].pc = "recv"

\* `async for message in websocket` yields the next frame (frames that
\* arrived before the connection was closed are still delivered) and the
\* loop calls _handle_message
Receive(p, c) ==
    /\ LoopReady(p, c)
    /\ inbox[p][c] # <<>>
    /\ _handle_message(p, c, Head(inbox[p][c]), [inbox EXCEPT ![p][c] = Tail(@)])

\* _handle_question / _handle_answer resume after `await _send_to_websocket`
\* of the Ack and call the custom handler
AfterAck(p, c) ==
    LET m == loop[p][c].msg
    IN  /\ loop[p][c].pc = "acked"
        /\ calls' = [calls EXCEPT ![p] = @ (+) SetToBag({
              [handler |-> IF Lower(m.type) = "question" THEN "on_question_received"
                           ELSE "on_answer_received", msg |-> m]})]
        /\ loop' = [loop EXCEPT ![p][c].pc = "handler"]
        /\ UNCHANGED <<attrs, envir, bcast, stopping, nextId, ret, sent,
                       returned, answered, evicted, nrecv, nsend, nadmin, limit>>

\* a receive loop that a failing handler brings down
RaiseEndsLoop(outcome) == IF outcome = "raise" THEN "ended" ELSE "recv"

\* where the receive loop stands after the handler call: the except clauses
\* around the call (lines 168, 193, 204) catch what the handler raises, so
\* _handle_message returns and the loop waits for its next frame
AfterHandler(outcome) == "recv"

\* the custom handler returns or raises; a non-empty return of
\* on_question_received is sent back as the Answer
HandlerReturn(p, c, outcome) ==
    LET m == loop[p][c].msg
        isq == Lower(m.type) = "question"
        answer == create_message(p, c, nextId[p][c], HandlerReply(m), "answer",
                                 m.message_id)
    IN  /\ loop[p][c].pc = "handler"
        /\ isq \/ outcome # "reply"
        /\ IF isq /\ outcome = "reply"
           THEN /\ _send_to_websocket(p, loop[p][c].websocket, answer, inbox)
                /\ nextId' = [nextId EXCEPT ![p][c] = @ + 1]
           ELSE /\ NoSend(inbox)
                /\ nextId' = nextId
        /\ loop' = [loop EXCEPT ![p][c] =
                      [@ EXCEPT !.pc = AfterHandler(outcome), !.websocket = NoConn,
                                !.msg = NoMsg,
                                !.errors = IF outcome = "raise" THEN @ + 1 ELSE @]]
        /\ UNCHANGED <<attrs, conn, peer, bcast, stopping, ret, calls,
                       returned, answered, evicted, nrecv, nsend, nadmin, limit>>

(* ----------------------------- send_question ------------------------- *)
\* the connections a caller can pass as target_websocket
Targets(p) == {NoConn} \cup {c \in Conns : conn[p][c] # "unused"}

\* a broadcast that also goes to the outbound connection
ClientsAndOutbound(p) ==
    connected_clients[p] \cup {c \in ClientConns : c = client_websocket[p]}

\* the set broadcast_message iterates over: `for client in self.connected_clients`
BroadcastTargets(p) == connected_clients[p]

\* a send_question that never refuses
NotReadyNever(p) == FALSE

\* the test `if self.conversation_state == "waiting_for_answer"` of send_question
NotReadyToSend(p) == conversation_state[p] = "waiting_for_answer"

\* send_question(content, target_websocket) up to its first await, or to its
\* return when it does not suspend.  ret.val: "None", "id" (the id of the
\* question, which is then in returned), "await" (suspended in broadcast_message)
send_question(p, content, target) ==
    LET q == create_message(p, NoConn, nextId[p][NoConn], content, "question", NoId)
    IN  /\ nsend' = [nsend EXCEPT ![p] = @ + 1]
        /\ IF NotReadyToSend(p)
           THEN /\ ret' = [ret EXCEPT ![p] = Call("send_question", target, "None")]
                /\ UNCHANGED <<pending_questions, conversation_state, nextId,
                               sent, inbox, bcast, returned>>
           ELSE /\ pending_questions' = [pending_questions EXCEPT ![p] =
                      [i \in (DOMAIN @) \cup {q.message_id} |->
                          IF i = q.message_id THEN q ELSE @[i]]]
                /\ conversation_state' =
                      [conversation_state EXCEPT ![p] = "waiting_for_answer"]
                /\ nextId' = [nextId EXCEPT ![p][NoConn] = @ + 1]
                /\ IF target # NoConn
                   THEN /\ _send_to_websocket(p, target, q, inbox)
                        /\ ret' = [ret EXCEPT ![p] = Call("send_question", target, "id")]
                        /\ returned' = [returned EXCEPT ![p] = @ \cup {q.message_id}]
                        /\ bcast' = bcast
                   ELSE IF BroadcastTargets(p) = {}
                   THEN /\ NoSend(inbox)
                        /\ ret' = [ret EXCEPT ![p] = Ret("send_question", "id")]
                        /\ returned' = [returned EXCEPT ![p] = @ \cup {q.message_id}]
                        /\ bcast' = bcast
                   ELSE \E c \in BroadcastTargets(p) :
                        /\ _send_to_websocket(p, c, q, inbox)
                        /\ ret' = [ret EXCEPT ![p] = Ret("send_question", "await")]
                        /\ returned' = returned
                        /\ bcast' = [bcast EXCEPT ![p] = @ \cup
                              {[msg |-> q, visited |-> {c},
                                members |-> BroadcastTargets(p)]}]
        /\ UNCHANGED <<server, client_websocket, connected_clients, message_cache,
                       on_question_received, on_answer_received, on_ack_received,
                       target_port, conn, peer, loop, stopping, calls,
                       answered, evicted, nrecv, nadmin, limit>>

\* broadcast_message resumes after `await _send_to_websocket(client, message)`
\* inside `for client in self.connected_clients`.  The set iterator raises
\* RuntimeError when the set has changed size.  Otherwise it goes on through
\* the hash table from where it stands: the members the loop started with and
\* has not yet visited are still ahead, a connection added meanwhile (with
\* another one discarded) is ahead or behind, so it may be visited or missed.
\* When nothing is ahead the loop ends and send_question returns the id.
broadcast_message(p, b) ==
    LET ahead == (BroadcastTargets(p) \cap b.members) \ b.visited
        added == (BroadcastTargets(p) \ b.members) \ b.visited
    IN  /\ b \in bcast[p]
        /\ IF Cardinality(BroadcastTargets(p)) # Cardinality(b.members)
           THEN /\ ret' = [ret EXCEPT ![p] = Ret("send_question", "RuntimeError")]
                /\ bcast' = [bcast EXCEPT ![p] = @ \ {b}]
                /\ NoSend(inbox)
                /\ returned' = returned
           ELSE \/ /\ ahead = {}
                   /\ ret' = [ret EXCEPT ![p] = Ret("send_question", "id")]
                   /\ bcast' = [bcast EXCEPT ![p] = @ \ {b}]
                   /\ NoSend(inbox)
                   /\ returned' = [returned EXCEPT ![p] = @ \cup {b.msg.message_id}]
                \/ \E c \in ahead \cup added :
                   /\ ret' = ret
                   /\ bcast' = [bcast EXCEPT ![p] =
                                   (@ \ {b}) \cup {[b EXCEPT !.visited = @ \cup {c}]}]
                   /\ _send_to_websocket(p, c, b.msg, inbox)
                   /\ returned' = returned
        /\ UNCHANGED <<attrs, conn, peer, loop, stopping, nextId, calls,
                       answered, evicted, nrecv, nsend, nadmin, limit>>

(* ------------------------ connection management ----------------------- *)
FirstUnused(p, S) ==
    CHOOSE c \in S : conn[p][c] = "unused"
                     /\ \A d \in S : conn[p][d] = "unused" => c[2] <= d[2]

HasUnused(p, S) == \E c \in S : conn[p][c] = "unused"

Handlers == {"on_question_received", "on_answer_received", "on_ack_received"}

\* the application fills the handler slots of a communicator it has just
\* constructed, before it starts the server or connects
RegisterHandlers(p, H) ==
    /\ H # {}
    /\ server[p] = "none" /\ \A c \in Conns : conn[p][c] = "unused"
    /\ nsend[p] = 0 /\ nadmin[p] = 0
    /\ ~on_question_received[p] /\ ~on_answer_received[p] /\ ~on_ack_received[p]
    /\ on_question_received' =
          [on_question_received EXCEPT ![p] = "on_question_received" \in H]
    /\ on_answer_received' =
          [on_answer_received EXCEPT ![p] = "on_answer_received" \in H]
    /\ on_ack_received' = [on_ack_received EXCEPT ![p] = "on_ack_received" \in H]
    /\ UNCHANGED <<server, client_websocket, connected_clients, message_cache,
                   pending_questions, conversation_state, target_port,
                   envir, coros, obs>>

\* start_server
start_server(p) ==
    /\ server[p] = "none"
    /\ server' = [server EXCEPT ![p] = "running"]
    /\ UNCHANGED <<client_websocket, connected_clients, message_cache,
                   pending_questions, conversation_state, on_question_received,
                   on_answer_received, on_ack_received, target_port,
                   envir, coros, obs>>

\* _server_handler starts for a connection an outside peer opened: it adds
\* the connection to connected_clients and waits for the first frame
_server_handler(p) ==
    /\ server[p] = "running"
    /\ HasUnused(p, ServerConns)
    /\ LET c == FirstUnused(p, ServerConns)
       IN  /\ conn' = [conn EXCEPT ![p][c] = "open"]
           /\ peer' = [peer EXCEPT ![p][c] = EnvPeer]
           /\ connected_clients' = [connected_clients EXCEPT ![p] = @ \cup {c}]
           /\ loop' = [loop EXCEPT ![p][c] = [NoLoop EXCEPT !.pc = "recv"]]
    /\ UNCHANGED <<server, client_websocket, message_cache, pending_questions,
                   conversation_state, on_question_received, on_answer_received,
                   on_ack_received, target_port, inbox, bcast, stopping, nextId,
                   obs>>

\* a connect_as_client that lets the failure of websockets.connect through
ConnectRaises == "ConnectionRefusedError"

\* what connect_as_client gives its caller when there is no target port
\* (line 312) or websockets.connect raised (lines 322-324)
ConnectFailed == "False"

\* connect_as_client: ret.val is the value returned.  The task it creates
\* for _client_message_handler starts at the caller's next await, before any
\* other connect_as_client can assign client_websocket (websockets.connect
\* suspends first), so `async for message in self.client_websocket` is bound
\* to the connection made by this call: the loop of connection c reads c.
\* result is what the network does: "refused" (websockets.connect raises) or
\* "connected"
connect_as_client(p, result) ==
    /\ \/ \* no target port, or websockets.connect raised
          /\ target_port[p] = "none" \/ result = "refused"
          /\ ret' = [ret EXCEPT ![p] = Ret("connect_as_client", ConnectFailed)]
          /\ UNCHANGED <<client_websocket, connected_clients, conn, peer, loop>>
       \/ \* connected to an outside server
          /\ result = "connected"
          /\ target_port[p] = "env"
          /\ HasUnused(p, ClientConns)
          /\ LET c == FirstUnused(p, ClientConns)
             IN  /\ conn' = [conn EXCEPT ![p][c] = "open"]
                 /\ peer' = [peer EXCEPT ![p][c] = EnvPeer]
                 /\ client_websocket' = [client_websocket EXCEPT ![p] = c]
                 /\ loop' = [loop EXCEPT ![p][c] = [NoLoop EXCEPT !.pc = "recv"]]
          /\ ret' = [ret EXCEPT ![p] = Ret("connect_as_client", "True")]
          /\ UNCHANGED connected_clients
       \/ \* connected to the server of the other communicator, whose
          \* _server_handler starts
          /\ result = "connected"
          /\ target_port[p] \in Comms
          /\ server[target_port[p]] = "running"
          /\ HasUnused(p, ClientConns)
          /\ HasUnused(target_port[p], ServerConns)
          /\ LET q == target_port[p]
                 c == FirstUnused(p, ClientConns)
                 d == FirstUnused(q, ServerConns)
             IN  /\ conn' = [conn EXCEPT ![p][c] = "open", ![q][d] = "open"]
                 /\ peer' = [peer EXCEPT ![p][c] = [comm |-> q, conn |-> d],
                                         ![q][d] = [comm |-> p, conn |-> c]]
                 /\ client_websocket' = [client_websocket EXCEPT ![p] = c]
                 /\ connected_clients' = [connected_clients EXCEPT ![q] = @ \cup {d}]
                 /\ loop' = [loop EXCEPT
                       ![p][c] = [NoLoop EXCEPT !.pc = "recv"],
                       ![q][d] = [NoLoop EXCEPT !.pc = "recv"]]
          /\ ret' = [ret EXCEPT ![p] = Ret("connect_as_client", "True")]
    /\ UNCHANGED <<server, message_cache, pending_questions, conversation_state,
                   on_question_received, on_answer_received, on_ack_received,
                   target_port, inbox, bcast, stopping, nextId, sent, calls,
                   returned, answered, evicted, nrecv, nsend, nadmin, limit>>

\* the connection c of p and its other end, if that is a communicator's
Ends(p, c) ==
    {<<p, c>>} \cup (IF peer[p][c].comm \in Comms
                     THEN {<<peer[p][c].comm, peer[p][c].conn>>} ELSE {})

ClosedConn(E, how) ==
    [q \in Comms |-> [d \in Conns |->
        IF <<q, d>> \in E /\ conn[q][d] = "open" THEN how ELSE conn[q][d]]]

\* the peer closes the connection (how = "closed_ok": close code 1000/1001)
\* or the connection breaks (how = "closed_err")
ConnectionClosed(p, c, how) ==
    /\ conn[p][c] = "open"
    /\ conn' = ClosedConn(Ends(p, c), how)
    /\ UNCHANGED <<attrs, peer, inbox, coros, obs>>

\* a connection handler that leaves its connection registered
KeepsClient(p, c) == connected_clients[p]

\* `finally: self.connected_clients.discard(websocket)` of _server_handler
DiscardClient(p, c) == connected_clients[p] \ {c}

\* the receive loop finds its connection closed: `async for` ends on a normal
\* closure and raises ConnectionClosed otherwise.  _server_handler discards
\* the connection; _client_message_handler resets client_websocket in its
\* except clauses only
LoopEnd(p, c) ==
    /\ loop[p][c].pc = "recv"
    /\ conn[p][c] \in {"closed_ok", "closed_err"}
    /\ inbox[p][c] = <<>>
    /\ loop' = [loop EXCEPT ![p][c].pc = "ended"]
    /\ IF c \in ServerConns
       THEN /\ connected_clients' =
                  [connected_clients EXCEPT ![p] = DiscardClient(p, c)]
            /\ UNCHANGED client_websocket
       ELSE /\ client_websocket' =
                  IF conn[p][c] = "closed_err"
                  THEN [client_websocket EXCEPT ![p] = NoConn]
                  ELSE client_websocket
            /\ UNCHANGED connected_clients
    /\ UNCHANGED <<server, message_cache, pending_questions, conversation_state,
                   on_question_received, on_answer_received, on_ack_received,
                   target_port, envir, bcast, stopping, nextId, obs>>

\* stop(), the client part (lines 351-353)
StopClient(p) ==
    IF client_websocket[p] # NoConn
    THEN ClosedConn(Ends(p, client_websocket[p]), "closed_ok")
    ELSE conn

\* a stop() without a server that also resets the turn-taking state
StopAndReset(p) ==
    /\ ~stopping[p]
    /\ server[p] = "none"
    /\ nadmin' = [nadmin EXCEPT ![p] = @ + 1]
    /\ conn' = StopClient(p)
    /\ ret' = [ret EXCEPT ![p] = Ret("stop", "None")]
    /\ conversation_state' = [conversation_state EXCEPT ![p] = "idle"]
    /\ UNCHANGED <<server, client_websocket, connected_clients, message_cache,
                   pending_questions, on_question_received, on_answer_received,
                   on_ack_received, target_port, peer, inbox, coros, sent,
                   calls, returned, answered, evicted, nrecv, nsend, limit>>

\* stop() up to `await self.server.wait_closed()`: server.close() closes the
\* listening socket and the accepted connections; without a server, to the end
stop(p) ==
    /\ ~stopping[p]
    /\ nadmin' = [nadmin EXCEPT ![p] = @ + 1]
    /\ IF server[p] # "none"
       THEN /\ server' = [server EXCEPT ![p] = "closed"]
            /\ conn' = ClosedConn(UNION {Ends(p, c) : c \in ServerConns}, "closed_ok")
            /\ stopping' = [stopping EXCEPT ![p] = TRUE]
            /\ ret' = [ret EXCEPT ![p] = Ret("stop", "await")]
       ELSE /\ server' = server
            /\ conn' = StopClient(p)
            /\ stopping' = stopping
            /\ ret' = [ret EXCEPT ![p] = Ret("stop", "None")]
    /\ UNCHANGED <<client_websocket, connected_clients, message_cache,
                   pending_questions, conversation_state, on_question_received,
                   on_answer_received, on_ack_received, target_port, peer, inbox,
                   loop, bcast, nextId, sent, calls, returned, answered,
                   evicted, nrecv, nsend, limit>>

\* stop() resumes when the connection handlers of the server have finished
StopResume(p) ==
    /\ stopping[p]
    /\ \A c \in ServerConns : loop[p][c].pc \in {"none", "ended"}
    /\ conn' = StopClient(p)
    /\ stopping' = [stopping EXCEPT ![p] = FALSE]
    /\ ret' = [ret EXCEPT ![p] = Ret("stop", "None")]
    /\ UNCHANGED <<attrs, peer, inbox, loop, bcast, nextId, sent, calls,
                   returned, answered, evicted, nrecv, nsend, nadmin, limit>>

\* get_stats() is called: nothing changes
GetStats(p) ==
    /\ nadmin' = [nadmin EXCEPT ![p] = @ + 1]
    /\ ret' = [ret EXCEPT ![p] = Ret("get_stats", "stats")]
    /\ UNCHANGED <<attrs, envir, coros, sent, calls, returned, answered,
                   evicted, nrecv, nsend, limit>>

(* --------------------------- specifications --------------------------- *)
Used(p, S) == Cardinality({c \in S : conn[p][c] # "unused"})

\* The bounds of a run: frames from outside peers, send_question calls,
\* accepted and dialled connections, stop and get_stats calls, the handler
\* sets the application may register, whether the peers send odd frames.
Limit(recv, send, peers, dials, admin, handlers, odd) ==
    [recv |-> recv, send |-> send, peers |-> peers, dials |-> dials,
     admin |-> admin, handlers |-> handlers, odd |-> odd]

\* Spec explores these families of runs of one communicator among outside
\* peers, which choose every frame it receives:
\*   the dispatch routine and turn-taking on one accepted connection,
\*   the same with frames that the wire format does not allow,
\*   broadcast and dispatch on several accepted connections,
\*   frames arriving on several accepted connections at once,
\*   frames arriving on an accepted and an outbound connection at once,
\*   the receive loops of several outbound connections,
\*   all operations together, with stop and get_stats,
\*   the operations of a communicator constructed without target port.
DispatchRuns == Limit(MaxRecv, MaxSend, 1, 0, 0, {Handlers}, FALSE)
OddRuns == Limit(MaxRecv, 1, 1, 0, 0, {Handlers}, TRUE)
BroadcastRuns == Limit(1, 1, MaxServerConns, 0, 0, {Handlers}, FALSE)
ConcurrentRuns == Limit(MaxRecv, 0, MaxServerConns, 0, 0, {Handlers}, FALSE)
MixedRuns == Limit(MaxRecv, 0, 1, 1, 0, {Handlers}, FALSE)
ClientRuns == Limit(1, 0, 0, MaxClientConns, 0, {Handlers}, FALSE)
OperationRuns == Limit(1, 1, 1, 1, MaxAdmin, {}, FALSE)
NoTargetRuns == Limit(0, 1, 1, 1, MaxAdmin, {}, FALSE)
SpecLimits ==
    {DispatchRuns, OddRuns, BroadcastRuns, ConcurrentRuns, MixedRuns,
     ClientRuns, OperationRuns, NoTargetRuns}

Init ==
    \E lim \in SpecLimits :
        Construct([p \in Comms |->
                      IF p = "A" /\ lim # NoTargetRuns THEN "env" ELSE "none"], lim)

EnvFrames(p) ==
    ProtocolFrames(p) \cup (IF limit.odd THEN OddFrames(p) ELSE {})

Operations(p) ==
    \/ \E H \in limit.handlers : RegisterHandlers(p, H)
    \/ start_server(p)
    \/ /\ Used(p, ClientConns) < limit.dials
       /\ \E result \in {"refused", "connected"} : connect_as_client(p, result)
    \/ \E c \in Conns : LoopEnd(p, c)
    \/ nadmin[p] < limit.admin /\ stop(p)
    \/ StopResume(p)
    \/ nadmin[p] < limit.admin /\ GetStats(p)
    \/ nsend[p] < limit.send /\ \E content \in Contents, target \in Targets(p) :
          send_question(p, content, target)
    \/ \E b \in bcast[p] : broadcast_message(p, b)
    \/ \E c \in Conns : Receive(p, c)
    \/ \E c \in Conns : AfterAck(p, c)
    \/ \E c \in Conns, o \in HandlerOutcomes : HandlerReturn(p, c, o)

Environment(p) ==
    \/ Used(p, ServerConns) < limit.peers /\ _server_handler(p)
    \/ \E c \in ServerConns : ConnectionClosed(p, c, "closed_err")
    \/ \E c \in ClientConns, how \in {"closed_ok", "closed_err"} :
          ConnectionClosed(p, c, how)
    \/ nrecv[p] < limit.recv /\ \E c \in Conns, m \in EnvFrames(p) : EnvSend(p, c, m)

Next == Operations("A") \/ Environment("A")

Spec == Init /\ [][Next]_vars

\* SpecCache: an outside peer on one accepted connection sends more distinct
\* message ids than the deduplication cache holds, and repeats the first.
\* The communicator has on_question_received registered.
CacheRuns ==
    Limit(MaxFill + MaxReplay, 0, 1, 0, 0, {{"on_question_received"}}, FALSE)

InitCache ==
    Construct([p \in Comms |-> IF p = "A" THEN "env" ELSE "none"], CacheRuns)

NextCache ==
    \/ \E H \in limit.handlers : RegisterHandlers("A", H)
    \/ start_server("A")
    \/ Used("A", ServerConns) < limit.peers /\ _server_handler("A")
    \/ /\ nrecv["A"] < limit.recv
       /\ on_question_received["A"]
       /\ \E c \in ServerConns, m \in FillFrames("A") : EnvSend("A", c, m)
    \/ \E c \in ServerConns : Receive("A", c)
    \/ \E c \in ServerConns : AfterAck("A", c)
    \/ \E c \in ServerConns, o \in HandlerOutcomes : HandlerReturn("A", c, o)

SpecCache == InitCache /\ [][NextCache]_vars

\* SpecPair: communicators A and B, each with the other as target, all
\* handlers registered, on_question_received returning a reply.  Each starts
\* its server and connects as client to the other once; questions are sent
\* when both are connected.  The network is reliable: no connection is
\* refused or closed, and every frame sent is delivered.
PairRuns == Limit(0, MaxSend, 1, 1, 0, {Handlers}, FALSE)

InitPair ==
    Construct([p \in Comms |-> IF p = "A" THEN "B" ELSE "A"], PairRuns)

Wired == \A p \in Comms : client_websocket[p] # NoConn

Setup(p) ==
    \/ \E H \in limit.handlers : RegisterHandlers(p, H)
    \/ on_question_received[p] /\ start_server(p)
    \/ Used(p, ClientConns) < limit.dials /\ connect_as_client(p, "connected")

Ask(p) ==
    /\ Wired
    /\ nsend[p] < limit.send
    /\ \E content \in Contents : send_question(p, content, NoConn)

Broadcast(p) == \E b \in bcast[p] : broadcast_message(p, b)

\* on_question_received returns its reply; the other handlers return
Handle(p, c) ==
    \E o \in {"reply", "empty"} :
        /\ (Lower(loop[p][c].msg.type) = "question") = (o = "reply")
        /\ HandlerReturn(p, c, o)

NextPair ==
    \E p \in Comms :
        \/ Setup(p)
        \/ Ask(p)
        \/ Broadcast(p)
        \/ \E c \in Conns : Receive(p, c) \/ AfterAck(p, c) \/ Handle(p, c)

\* the event loop keeps running the coroutines that are ready, and handlers
\* return
Progress ==
    \E p \in Comms :
        \/ Broadcast(p)
        \/ \E c \in Conns : Receive(p, c) \/ AfterAck(p, c) \/ Handle(p, c)

FairPair == WF_vars(Progress)

SpecPair == InitPair /\ [][NextPair]_vars /\ FairPair

\* SpecMessage: an application calls create_message on communicators it has
\* constructed, as test_message_creation does, with any content, any type
\* string (the function does not look at it) and any in_reply_to.
MessageContents == {<<"Hello">>, <<"ping">>, <<>>}
MessageTypes == {"question", "answer", "ack", "hello"}
ReplyIds == {NoId} \cup EnvIds
MessageRuns == Limit(0, 0, 0, 0, 0, {}, FALSE)

InitMessage == Construct([p \in Comms |-> "env"], MessageRuns)

\* create_message(content, msg_type, in_reply_to) is called on p and returns
CreateMessage(p, content, msg_type, in_reply_to) ==
    /\ nextId[p][NoConn] < MaxCreate
    /\ ret' = [ret EXCEPT ![p] =
                 Call("create_message", NoConn,
                      create_message(p, NoConn, nextId[p][NoConn], content,
                                     msg_type, in_reply_to))]
    /\ nextId' = [nextId EXCEPT ![p][NoConn] = @ + 1]
    /\ UNCHANGED <<attrs, envir, loop, bcast, stopping, sent, calls, returned,
                   answered, evicted, nrecv, nsend, nadmin, limit>>

NextMessage ==
    \E p \in Comms, content \in MessageContents, msg_type \in MessageTypes,
       in_reply_to \in ReplyIds :
        CreateMessage(p, content, msg_type, in_reply_to)

SpecMessage == InitMessage /\ [][NextMessage]_vars

(* ------------------------------- claims ------------------------------- *)
\* a step in which communicator p calls send_question
SendQuestionCalled(p) == nsend'[p] = nsend[p] + 1

\* ids returned by send_question for which no Answer has been dispatched
Unanswered(p) == returned[p] \ answered[p]

\* a step in which the receive loop of connection c of p takes a frame and
\* runs it through _handle_message; Frame is that frame
Received(p, c) == inbox[p][c] # <<>> /\ inbox'[p][c] = Tail(inbox[p][c])
Frame(p, c) == Head(inbox[p][c])

\* the frame is not a duplicate and _handle_question / _handle_answer /
\* _handle_ack runs for it
Dispatched(p, c, t) ==
    /\ Received(p, c)
    /\ Outcome(p, Frame(p, c)) = "dispatched"
    /\ Lower(Frame(p, c).type) = t

Pending(p) == DOMAIN pending_questions[p]

\* the number of handler invocations of p for frames with message id
RECURSIVE Copies(_, _)
Copies(B, S) ==
    IF S = {} THEN 0
    ELSE LET e == CHOOSE x \in S : TRUE IN CopiesIn(e, B) + Copies(B, S \ {e})
Invocations(p, id) ==
    Copies(calls[p], {e \in BagToSet(calls[p]) : e.msg.message_id = id})
InvokedIds(p) == {e.msg.message_id : e \in BagToSet(calls[p])}

\* C1 (turn-taking exclusion): a send_question call made while an id that
\* send_question returned has had no matching Answer dispatched returns None,
\* puts no frame on any connection, and leaves conversation_state and
\* pending_questions as they were.
C1_TurnTakingExclusion ==
    [][\A p \in Comms :
          SendQuestionCalled(p) /\ Unanswered(p) # {}
          => /\ ret'[p].op = "send_question" /\ ret'[p].val = "None"
             /\ sent' = sent
             /\ bcast' = bcast
             /\ conversation_state' = conversation_state
             /\ pending_questions' = pending_questions]_vars

\* a second send_question call has been refused while the first question
\* was unanswered
C1_Witness ==
    /\ ret["A"].op = "send_question" /\ ret["A"].val = "None"
    /\ nsend["A"] = 2
    /\ Unanswered("A") # {}


\* C2 (state reset on matching answer): when a non-duplicate Answer whose
\* in_reply_to is the id of a pending question is dispatched, that entry is
\* removed from pending_questions, conversation_state becomes idle and
\* is_ready_to_send_question() is true.
C2_ResetOnMatchingAnswer ==
    [][\A p \in Comms, c \in Conns :
          Dispatched(p, c, "answer") /\ Frame(p, c).in_reply_to \in Pending(p)
          => /\ Frame(p, c).in_reply_to \notin Pending(p)'
             /\ conversation_state'[p] = "idle"
             /\ is_ready_to_send_question(p)']_vars

\* the answer to a question that send_question returned has been dispatched
\* and the communicator is idle with nothing pending
C2_Witness ==
    /\ returned["A"] \cap answered["A"] # {}
    /\ Pending("A") = {}
    /\ conversation_state["A"] = "idle"

\* C3 as stated (idempotent delivery): a registered handler is invoked at
\* most once for any given message_id.
C3_AtMostOncePerId ==
    \A p \in Comms : \A id \in InvokedIds(p) : Invocations(p, id) <= 1

\* C3 (idempotent delivery, while the id is remembered): a registered handler
\* is invoked a second time for a message_id only after that id has been
\* evicted from message_cache.
C3_AtMostOnceUntilEvicted ==
    \A p \in Comms : \A id \in InvokedIds(p) :
        Invocations(p, id) > 1 => id \in evicted[p]

\* a frame whose id was dispatched before has been received again and the
\* handler has still been invoked once only
C3_Witness ==
    /\ Invocations("A", 1) = 1
    /\ nrecv["A"] > Cardinality(IdsSent("A"))
    /\ \A c \in Conns : inbox["A"][c] = <<>> /\ loop["A"][c].pc \in {"none", "recv"}

\* the step appends exactly one frame to the sent log of connection c of p,
\* an Ack that refers to message id, and no frame to any other connection
OneAckOn(p, c, id) ==
    /\ Len(sent'[p][c]) = Len(sent[p][c]) + 1
    /\ sent'[p][c][Len(sent'[p][c])].type = "ack"
    /\ sent'[p][c][Len(sent'[p][c])].in_reply_to = id
    /\ \A d \in Conns \ {c} : sent'[p][d] = sent[p][d]

\* C4 as stated (ack symmetry): every non-duplicate Question or Answer that
\* is dispatched, its connection still open, causes exactly one Ack to be
\* sent, on the connection the message arrived on, with in_reply_to equal to
\* the message_id of the received message.
C4_AckOnSameConnection ==
    [][\A p \in Comms, c \in Conns :
          /\ Dispatched(p, c, "question") \/ Dispatched(p, c, "answer")
          /\ conn[p][c] = "open"
          => OneAckOn(p, c, Frame(p, c).message_id)]_vars

\* the ids send_question of p can return
QuestionIds(p) == {Uuid(p, NoConn, n) : n \in 0..(MaxSend - 1)}

\* on_answer_received of p has been invoked with an Answer to question q
\* whose content is the reply of the peer's handler to the content "ping"
AnswerHandled(p, q) ==
    \E e \in BagToSet(calls[p]) :
        /\ e.handler = "on_answer_received"
        /\ e.msg.in_reply_to = q
        /\ e.msg.content = <<"pong:", "ping">>

\* C5 (round trip): with A and B started and connected to each other and
\* B's on_question_received replying, a send_question of A that returned id
\* q is eventually followed by A's on_answer_received being invoked with the
\* reply and in_reply_to = q, and by is_ready_to_send_question() of A being
\* true.
C5_RoundTrip ==
    \A q \in QuestionIds("A") :
        /\ (q \in returned["A"]) ~> AnswerHandled("A", q)
        /\ (q \in returned["A"]) ~> is_ready_to_send_question("A")

\* the round trip of a question of A is complete
C5_Witness ==
    \E q \in returned["A"] :
        /\ AnswerHandled("A", q)
        /\ is_ready_to_send_question("A")
        /\ Wired

\* the Question with message id q is in the sent log of connection c of p
\* after the step
QuestionSentOn(p, c, q) ==
    \E i \in 1..Len(sent'[p][c]) :
        sent'[p][c][i].message_id = q /\ sent'[p][c][i].type = "question"

\* a step in which a send_question call without target returns the id q
ReturnsBroadcastId(p, q) ==
    /\ q \notin returned[p] /\ q \in returned'[p]
    /\ ret'[p].target = NoConn

\* the server-accepted connections registered when the call that is now
\* returning q was made
MembersAtCall(p, q) == UNION {b.members : b \in {x \in bcast[p] : x.msg.message_id = q}}

\* C6 as stated: a successful send_question without target emits the Question
\* on every live server-accepted connection and also on the outbound client
\* connection when one is present.
C6_BroadcastReachesClientToo ==
    [][\A p \in Comms : \A q \in QuestionIds(p) :
          ReturnsBroadcastId(p, q)
          => /\ \A c \in MembersAtCall(p, q) :
                   conn'[p][c] = "open" => QuestionSentOn(p, c, q)
             /\ client_websocket[p] # NoConn /\ conn'[p][client_websocket[p]] = "open"
                   => QuestionSentOn(p, client_websocket[p], q)]_vars

\* C6 (broadcast to the accepted connections only): a successful
\* send_question without target has emitted the Question on every
\* server-accepted connection that was registered when the call was made and
\* is still open, and on no outbound client connection.
C6_BroadcastReachesAccepted ==
    [][\A p \in Comms : \A q \in QuestionIds(p) :
          ReturnsBroadcastId(p, q)
          => /\ \A c \in MembersAtCall(p, q) :
                   conn'[p][c] = "open" => QuestionSentOn(p, c, q)
             /\ \A c \in ClientConns : ~QuestionSentOn(p, c, q)]_vars

\* a send_question without target has returned with an accepted and an
\* outbound connection open: the Question is on the accepted one only
C6_Witness ==
    /\ ret["A"] = Ret("send_question", "id")
    /\ client_websocket["A"] # NoConn
    /\ conn["A"][client_websocket["A"]] = "open"
    /\ sent["A"][client_websocket["A"]] = <<>>
    /\ \E c \in connected_clients["A"] :
          conn["A"][c] = "open" /\ Len(sent["A"][c]) = 1 /\ sent["A"][c][1].type = "question"

\* the turn-taking state of p is the same after the step
TurnStateUnchanged(p) ==
    /\ conversation_state'[p] = conversation_state[p]
    /\ pending_questions'[p] = pending_questions[p]
    /\ is_ready_to_send_question(p)' = is_ready_to_send_question(p)

\* the receive loop of connection c resumes after the Ack and invokes the
\* handler for the frame it holds
InvokesHandler(p, c, h) ==
    /\ loop'[p][c].pc = "handler"
    /\ calls'[p] = calls[p] (+) SetToBag({[handler |-> h, msg |-> loop[p][c].msg]})

\* C7 (non-matching answer tolerance): dispatching a non-duplicate Answer
\* whose in_reply_to is absent or no key of pending_questions leaves
\* conversation_state, pending_questions and is_ready_to_send_question()
\* unchanged; with on_answer_received registered the loop goes on, after the
\* Ack, to invoke it with that Answer, again without changing them.
C7_NonMatchingAnswer ==
    [][\A p \in Comms, c \in Conns :
          /\ Dispatched(p, c, "answer") /\ Frame(p, c).in_reply_to \notin Pending(p)
             => /\ TurnStateUnchanged(p)
                /\ on_answer_received[p]
                      => loop'[p][c].pc = "acked" /\ loop'[p][c].msg = Frame(p, c)
          /\ loop[p][c].pc = "acked" /\ Lower(loop[p][c].msg.type) = "answer"
                /\ loop'[p][c] # loop[p][c]
             => InvokesHandler(p, c, "on_answer_received") /\ TurnStateUnchanged(p)]_vars

\* on_answer_received has been invoked with an Answer to no question of the
\* communicator, which is still waiting for the answer to its question
C7_Witness ==
    /\ conversation_state["A"] = "waiting_for_answer"
    /\ Pending("A") # {}
    /\ \E e \in BagToSet(calls["A"]) :
          /\ e.handler = "on_answer_received"
          /\ e.msg.in_reply_to \notin QuestionIds("A")

\* C8 (bounded cache): after every call of _is_duplicate_message the size
\* of message_cache is at most max_cache_size, and the call for a frame that
\* is waiting to be received returns with a cache.
C8_BoundedCache ==
    \A p \in Comms :
        /\ Cardinality(message_cache[p]) <= max_cache_size
        /\ \A c \in Conns :
              inbox[p][c] # <<>>
              => CacheAfter(message_cache[p], Head(inbox[p][c]).message_id) # {}

\* MaxFill distinct ids have been recorded, one batch has been evicted and
\* the cache is full again
C8_Witness ==
    /\ Cardinality(message_cache["A"] \cup evicted["A"]) = MaxFill
    /\ Cardinality(evicted["A"]) = EvictBatch
    /\ Cardinality(message_cache["A"]) = max_cache_size

\* C9 (duplicates are dropped): receiving a frame whose message_id is in
\* message_cache sends no Ack and no Answer, invokes and schedules no
\* handler, and leaves message_cache, conversation_state and
\* pending_questions unchanged, also when the frame is an Answer whose
\* in_reply_to is the pending question.
C9_DuplicateIsNoOp ==
    [][\A p \in Comms, c \in Conns :
          /\ Received(p, c)
          /\ Frame(p, c).message_id # NoId
          /\ Frame(p, c).message_id \in message_cache[p]
          => /\ sent' = sent
             /\ calls' = calls
             /\ loop' = loop
             /\ message_cache' = message_cache
             /\ conversation_state' = conversation_state
             /\ pending_questions' = pending_questions]_vars

\* two frames with the same message_id have been received while the second
\* question of the communicator was pending, the first question having been
\* answered: the second frame has changed nothing
C9_Witness ==
    /\ ~limit.odd
    /\ nrecv["A"] = 2
    /\ Cardinality(message_cache["A"]) = 1
    /\ \A c \in Conns : inbox["A"][c] = <<>> /\ loop["A"][c].pc \in {"none", "recv"}
    /\ Cardinality(returned["A"]) = 2
    /\ Cardinality(answered["A"] \cap returned["A"]) = 1
    /\ conversation_state["A"] = "waiting_for_answer"
    /\ Cardinality(Pending("A")) = 1

\* C10 (no timeout): conversation_state goes from waiting_for_answer to
\* idle only in a step that dispatches a non-duplicate Answer whose
\* in_reply_to is the id of a pending question; no other step, of any
\* operation, does.
C10_LeavesWaitingOnlyByAnswer ==
    [][\A p \in Comms :
          conversation_state[p] = "waiting_for_answer" /\ conversation_state'[p] = "idle"
          => \E c \in Conns :
                Dispatched(p, c, "answer") /\ Frame(p, c).in_reply_to \in Pending(p)]_vars

\* stop() has completed after a question was sent and a frame received, the
\* connections are closed, and the communicator is still waiting
C10_Witness ==
    /\ ret["A"] = Ret("stop", "None")
    /\ server["A"] = "closed"
    /\ \A c \in Conns : conn["A"][c] # "open"
    /\ client_websocket["A"] # NoConn
    /\ nrecv["A"] = 1
    /\ \A c \in Conns : inbox["A"][c] = <<>>
    /\ conversation_state["A"] = "waiting_for_answer"
    /\ Pending("A") # {}

\* C11 (single outstanding question): in every reachable state, whatever the
\* interleaving of send_question calls and receive loops, pending_questions
\* holds at most one entry and is non-empty exactly when conversation_state
\* is waiting_for_answer.
C11_OnePendingIffWaiting ==
    \A p \in Comms :
        /\ Cardinality(Pending(p)) <= 1
        /\ Pending(p) # {} <=> conversation_state[p] = "waiting_for_answer"

\* a second question is pending after the first was answered, a send_question
\* call is suspended in its broadcast and a frame is waiting to be received
C11_Witness ==
    /\ Cardinality(returned["A"] \cap answered["A"]) = 1
    /\ bcast["A"] # {}
    /\ Pending("A") = {b.msg.message_id : b \in bcast["A"]}
    /\ conversation_state["A"] = "waiting_for_answer"
    /\ \E c \in Conns : inbox["A"][c] # <<>>

\* the positions in the sent log of connection c of p that hold a frame of
\* type t with in_reply_to = id
SentAt(p, c, t, id) ==
    {i \in 1..Len(sent[p][c]) :
        sent[p][c][i].type = t /\ sent[p][c][i].in_reply_to = id}

\* on_question_received of p has been invoked with the Question m
QuestionHandlerInvoked(p, m) ==
    [handler |-> "on_question_received", msg |-> m] \in BagToSet(calls[p])

\* an Answer to the question with message id has been put on some connection
AnswerSent(p, id) == \E c \in Conns : SentAt(p, c, "answer", id) # {}

\* C12 (Ack, then handler, then Answer): for a dispatched Question, while
\* the loop is suspended after the Ack the handler has not been invoked and
\* no Answer is out, the Ack being on the connection it was sent to if that
\* is open; while the handler runs no Answer is out; an Answer is out only
\* after the handler was invoked; and on every connection, so on the one the
\* question arrived on, the Ack for a question precedes the Answer to it.
C12_AckThenHandlerThenAnswer ==
    \A p \in Comms, c \in Conns :
        LET l == loop[p][c]
            q == l.msg.message_id
        IN  /\ l.pc = "acked" /\ Lower(l.msg.type) = "question"
               => /\ ~QuestionHandlerInvoked(p, l.msg)
                  /\ ~AnswerSent(p, q)
                  /\ CanSend(p, l.websocket) => SentAt(p, l.websocket, "ack", q) # {}
            /\ l.pc = "handler" /\ Lower(l.msg.type) = "question"
               => QuestionHandlerInvoked(p, l.msg) /\ ~AnswerSent(p, q)
            /\ \A j \in 1..Len(sent[p][c]) :
                  sent[p][c][j].type = "answer"
                  => /\ \E i \in SentAt(p, c, "ack", sent[p][c][j].in_reply_to) : i < j
                     /\ \E e \in BagToSet(calls[p]) :
                           /\ e.handler = "on_question_received"
                           /\ e.msg.message_id = sent[p][c][j].in_reply_to

\* a Question arrived on an accepted connection and the Ack, the handler
\* invocation and the Answer followed, the frames on that connection
C12_Witness ==
    \E c \in ServerConns :
        /\ Len(sent["A"][c]) = 2
        /\ sent["A"][c][1].type = "ack" /\ sent["A"][c][1].in_reply_to = 1
        /\ sent["A"][c][2].type = "answer" /\ sent["A"][c][2].in_reply_to = 1
        /\ QuestionHandlerInvoked("A", EnvFrame(1, "question", NoId))
        /\ loop["A"][c].pc = "recv"

\* the step appends exactly one frame to the sent log of connection c of p,
\* an Answer to message id with the given content, and no frame to any other
\* connection
OneAnswerOn(p, c, id, content) ==
    /\ Len(sent'[p][c]) = Len(sent[p][c]) + 1
    /\ sent'[p][c][Len(sent'[p][c])].type = "answer"
    /\ sent'[p][c][Len(sent'[p][c])].in_reply_to = id
    /\ sent'[p][c][Len(sent'[p][c])].content = content
    /\ \A d \in Conns \ {c} : sent'[p][d] = sent[p][d]

\* no frame that the step puts on a connection of p is an Answer
NoAnswerAdded(p) ==
    \A d \in Conns : \A i \in (Len(sent[p][d]) + 1)..Len(sent'[p][d]) :
        sent'[p][d][i].type # "answer"

\* C13 as stated (Answer iff the handler replies): when on_question_received
\* returns for a dispatched Question whose connection is still open, an
\* Answer is sent exactly if the return value is a non-empty string, with
\* in_reply_to the question's message_id and content the returned string, on
\* the connection the question arrived on; after a None/empty return, and
\* when a Question is dispatched with no handler registered, no Answer is
\* sent and the receive loop goes on to its next frame.
C13_AnswerIffHandlerReplies ==
    [][\A p \in Comms, c \in Conns :
          /\ \A o \in HandlerOutcomes :
                /\ Lower(loop[p][c].msg.type) = "question"
                /\ conn[p][c] = "open"
                /\ HandlerReturn(p, c, o)
                => /\ o = "reply"
                      => OneAnswerOn(p, c, loop[p][c].msg.message_id,
                                     HandlerReply(loop[p][c].msg))
                   /\ o # "reply" => sent' = sent
                   /\ loop'[p][c].pc = "recv"
          /\ Dispatched(p, c, "question") /\ ~on_question_received[p]
             => NoAnswerAdded(p) /\ loop'[p][c].pc = "recv" /\ calls' = calls]_vars

\* a step in which the receive loop of connection c of p catches a failure of
\* the custom handler it called
HandlerRaised(p, c) == loop'[p][c].errors = loop[p][c].errors + 1

\* the step appends an Ack that refers to message id to the sent log of
\* connection w of p
AckAdded(p, w, id) ==
    /\ Len(sent'[p][w]) = Len(sent[p][w]) + 1
    /\ sent'[p][w][Len(sent'[p][w])].type = "ack"
    /\ sent'[p][w][Len(sent'[p][w])].in_reply_to = id

\* C14 (handler failure containment): when a custom handler raises, the
\* receive loop that called it waits for its next frame, no connection is
\* closed or forgotten, no Answer or other frame is sent, the Ack sent
\* before the call is on the wire, and conversation_state and
\* pending_questions keep the values they had, a question forgotten by the
\* transition of a matching Answer staying forgotten.  A frame the loop
\* receives after a failure is dispatched like any other: a Question or
\* Answer is acknowledged and the registered handler is scheduled, an Ack is
\* handed to on_ack_received.
C14_HandlerFailureContained ==
    [][\A p \in Comms, c \in Conns :
          /\ HandlerRaised(p, c)
             => /\ loop'[p][c].pc = "recv"
                /\ conn' = conn
                /\ connected_clients' = connected_clients
                /\ client_websocket' = client_websocket
                /\ sent' = sent
                /\ Lower(loop[p][c].msg.type) \in AckedTypes
                      /\ CanSend(p, loop[p][c].websocket)
                   => SentAt(p, loop[p][c].websocket, "ack",
                             loop[p][c].msg.message_id) # {}
                /\ TurnStateUnchanged(p)
                /\ Lower(loop[p][c].msg.type) = "answer"
                   => loop[p][c].msg.in_reply_to \notin Pending(p)'
          /\ loop[p][c].errors > 0 /\ Received(p, c)
                /\ Outcome(p, Frame(p, c)) = "dispatched"
             => /\ Lower(Frame(p, c).type) \in AckedTypes
                      /\ CanSend(p, WebsocketArg(p, c))
                   => AckAdded(p, WebsocketArg(p, c), Frame(p, c).message_id)
                /\ HandlerSet(p, Lower(Frame(p, c).type))
                   => /\ loop'[p][c].pc \in {"acked", "handler"}
                      /\ loop'[p][c].msg = Frame(p, c)]_vars

\* on_answer_received raised for the Answer to the pending question, which
\* has been acknowledged and has made the communicator idle; the same loop
\* has then acknowledged a Question and is calling on_question_received
C14_Witness ==
    \E c \in ServerConns :
        /\ loop["A"][c].errors = 1
        /\ loop["A"][c].pc = "handler"
        /\ loop["A"][c].msg.type = "question"
        /\ returned["A"] \cap answered["A"] # {}
        /\ conversation_state["A"] = "idle"
        /\ Pending("A") = {}
        /\ \E i, j \in 1..Len(sent["A"][c]) :
              /\ i < j
              /\ sent["A"][c][i].type = "ack" /\ sent["A"][c][i].in_reply_to = 1
              /\ sent["A"][c][j].type = "ack" /\ sent["A"][c][j].in_reply_to = 2
        /\ ~AnswerSent("A", 1)

\* the frame is not valid JSON, has no message_id, or has a type that is
\* none of question, answer, ack (the code compares the lower-cased value)
Malformed(m) ==
    \/ m = NotJson
    \/ m.message_id = NoId
    \/ Lower(m.type) \notin {"question", "answer", "ack"}

\* the frame has a message_id that is not in the cache, a known type and the
\* fields of a message
Valid(p, m) ==
    /\ ~Malformed(m)
    /\ m.message_id \notin message_cache[p]
    /\ HasKeys(m)

\* C15 (malformed frames are discarded): receiving a frame that is not valid
\* JSON, has no message_id or has a type other than question/answer/ack
\* sends no Ack and no Answer, invokes and schedules no handler, leaves
\* conversation_state and pending_questions unchanged, closes no connection
\* and leaves the receive loop waiting for its next frame; a valid frame that
\* a loop receives after it has discarded one is dispatched: a Question or
\* Answer is acknowledged, the registered handler is scheduled.
C15_MalformedDiscarded ==
    [][\A p \in Comms, c \in Conns :
          /\ Received(p, c) /\ Malformed(Frame(p, c))
             => /\ sent' = sent
                /\ calls' = calls
                /\ TurnStateUnchanged(p)
                /\ conn' = conn
                /\ connected_clients' = connected_clients
                /\ loop'[p][c].pc = "recv"
          /\ Received(p, c) /\ loop[p][c].discards > 0 /\ Valid(p, Frame(p, c))
             => /\ Lower(Frame(p, c).type) \in AckedTypes
                      /\ CanSend(p, WebsocketArg(p, c))
                   => AckAdded(p, WebsocketArg(p, c), Frame(p, c).message_id)
                /\ HandlerSet(p, Lower(Frame(p, c).type))
                   => /\ loop'[p][c].pc \in {"acked", "handler"}
                      /\ loop'[p][c].msg = Frame(p, c)]_vars

\* a receive loop has discarded a frame while the communicator's question
\* was pending, and has then acknowledged a Question on the same connection
\* and is calling on_question_received for it
C15_Witness ==
    \E c \in ServerConns :
        /\ loop["A"][c].discards = 1
        /\ loop["A"][c].pc = "handler"
        /\ loop["A"][c].msg.type = "question"
        /\ SentAt("A", c, "ack", loop["A"][c].msg.message_id) # {}
        /\ conversation_state["A"] = "waiting_for_answer"
        /\ Pending("A") # {}

\* C16 (connect_as_client reports failure by its value): every call returns
\* True or False; with no target port, or when websockets.connect fails, it
\* returns False, starts no receive loop and leaves the outbound connection
\* attribute alone, so get_stats().has_client_connection stays false; a call
\* that returns True has made a new open outbound connection, refers to it
\* and has started its receive loop, and has_client_connection is true.
C16_ConnectReturnsBoolean ==
    [][\A p \in Comms, result \in {"refused", "connected"} :
          connect_as_client(p, result)
          => /\ ret'[p].op = "connect_as_client"
             /\ ret'[p].val \in {"True", "False"}
             /\ target_port[p] = "none" \/ result = "refused"
                => /\ ret'[p].val = "False"
                   /\ loop' = loop
                   /\ conn' = conn
                   /\ client_websocket' = client_websocket
                   /\ ~get_stats(p).has_client_connection
                      => ~get_stats(p)'.has_client_connection
             /\ ret'[p].val = "True"
                => /\ target_port[p] # "none" /\ result = "connected"
                   /\ client_websocket'[p] \in ClientConns
                   /\ conn[p][client_websocket'[p]] = "unused"
                   /\ conn'[p][client_websocket'[p]] = "open"
                   /\ loop[p][client_websocket'[p]].pc = "none"
                   /\ loop'[p][client_websocket'[p]].pc = "recv"
                   /\ get_stats(p)'.has_client_connection]_vars

\* the peer was offline: connect_as_client of a communicator with a target
\* port has returned False, no outbound receive loop exists and get_stats
\* reports no client connection, while the server side has a connection
C16_Witness ==
    /\ target_port["A"] = "env"
    /\ ret["A"] = Ret("connect_as_client", "False")
    /\ \A c \in ClientConns : loop["A"][c].pc = "none" /\ conn["A"][c] = "unused"
    /\ ~get_stats("A").has_client_connection
    /\ get_stats("A").connected_clients = 1

\* stop() of p has returned and no receive loop of p is running
Stopped(p) ==
    /\ ret[p] = Ret("stop", "None")
    /\ \A c \in Conns : loop[p][c].pc \in {"none", "ended"}

\* C17 as stated (teardown on stop): after stop() has completed and the
\* receive loops have ended, get_stats() reports connected_clients = 0 and
\* has_client_connection = false.
C17_TornDownAfterStop ==
    \A p \in Comms :
        Stopped(p)
        => /\ get_stats(p).connected_clients = 0
           /\ ~get_stats(p).has_client_connection

\* C17 (what stop leaves behind): after stop() has completed and the
\* receive loops have ended, connected_clients is empty, so get_stats()
\* reports connected_clients = 0; the outbound connection attribute is not
\* reset by stop: when get_stats() reports has_client_connection = true the
\* attribute refers to a connection that is closed, and it reports false
\* only if no outbound connection was made or a client receive loop ended
\* on a connection error.
C17_StopLeavesClosedHandle ==
    \A p \in Comms :
        Stopped(p)
        => /\ connected_clients[p] = {}
           /\ get_stats(p).connected_clients = 0
           /\ get_stats(p).has_client_connection
              => conn[p][client_websocket[p]] \in {"closed_ok", "closed_err"}
           /\ ~get_stats(p).has_client_connection
              => \/ \A c \in ClientConns : conn[p][c] = "unused"
                 \/ \E c \in ClientConns :
                       conn[p][c] = "closed_err" /\ loop[p][c].pc = "ended"

\* stop() has completed for a communicator that had an accepted and an
\* outbound connection, all receive loops have ended, nothing is registered
\* in connected_clients, and get_stats still reports a client connection
C17_Witness ==
    /\ Stopped("A")
    /\ server["A"] = "closed"
    /\ \E c \in ServerConns : loop["A"][c].pc = "ended"
    /\ \E c \in ClientConns : loop["A"][c].pc = "ended"
    /\ get_stats("A").connected_clients = 0
    /\ get_stats("A").has_client_connection

\* C18 (an Ack is only handed to its handler): the step that dispatches a
\* non-duplicate Ack sends no frame, creates no message and leaves
\* conversation_state and pending_questions unchanged, also when the Ack
\* refers to the pending question; with on_ack_received registered it adds
\* exactly the invocation of that handler with the Ack, otherwise it invokes
\* nothing; and the return of the handler, normal or not, sends nothing and
\* changes neither attribute.
C18_AckOnlyInvokesHandler ==
    [][\A p \in Comms, c \in Conns :
          /\ Dispatched(p, c, "ack")
             => /\ sent' = sent
                /\ nextId' = nextId
                /\ TurnStateUnchanged(p)
                /\ on_ack_received[p]
                   => /\ calls'[p] = calls[p] (+) SetToBag({
                             [handler |-> "on_ack_received", msg |-> Frame(p, c)]})
                      /\ loop'[p][c].pc = "handler"
                /\ ~on_ack_received[p]
                   => calls' = calls /\ loop' = loop
          /\ loop[p][c].pc = "handler" /\ Lower(loop[p][c].msg.type) = "ack"
                /\ loop'[p][c] # loop[p][c]
             => /\ sent' = sent
                /\ nextId' = nextId
                /\ calls' = calls
                /\ TurnStateUnchanged(p)
                /\ loop'[p][c].pc = "recv"]_vars

\* on_ack_received has been invoked with an Ack that refers to the pending
\* question and has returned; the only frame the communicator has sent is
\* the Question, and it is still waiting for the answer
C18_Witness ==
    \E q \in Pending("A") :
        /\ conversation_state["A"] = "waiting_for_answer"
        /\ \E e \in BagToSet(calls["A"]) :
              e.handler = "on_ack_received" /\ e.msg.in_reply_to = q
        /\ \A c \in Conns :
              /\ loop["A"][c].pc \in {"none", "recv"}
              /\ \A i \in 1..Len(sent["A"][c]) : sent["A"][c][i].type = "question"
        /\ \E c \in Conns : sent["A"][c] # <<>>

\* a step in which _handle_message calls _is_duplicate_message(id): the
\* receive loop of connection c of p takes a decoded frame with a message_id
DedupCalled(p, c) ==
    Received(p, c) /\ Frame(p, c) # NotJson /\ ~NoMessageId(Frame(p, c))

\* a further call with the same id, made on the cache the step leaves,
\* returns True and leaves the cache as it is
RepeatIsNoOp(p, id) ==
    /\ _is_duplicate_message(message_cache'[p], id)
    /\ CacheAfter(message_cache'[p], id) = {message_cache'[p]}

\* C19 as stated (check-and-record): _is_duplicate_message(id) returns False
\* for an id not in the cache and records it; for an id in the cache it
\* returns True and leaves the cache unchanged; so a repeated call with the
\* same id returns True and changes nothing.
C19_RecordsEveryNewId ==
    [][\A p \in Comms, c \in Conns :
          DedupCalled(p, c)
          => LET id == Frame(p, c).message_id
             IN  /\ id \notin message_cache[p]
                    => /\ ~_is_duplicate_message(message_cache[p], id)
                       /\ id \in message_cache'[p]
                 /\ id \in message_cache[p]
                    => /\ _is_duplicate_message(message_cache[p], id)
                       /\ message_cache'[p] = message_cache[p]
                 /\ RepeatIsNoOp(p, id)]_vars

\* C19 (check-and-record, below the size limit): _is_duplicate_message(id)
\* returns True for an id in the cache and leaves the cache unchanged; for
\* an id not in the cache it returns False and, when the cache holds fewer
\* than max_cache_size ids, records it, so that a repeated call returns True
\* and changes nothing; when the cache is full it removes EvictBatch ids
\* from the cache and the new id, and the new id may be among them.
C19_RecordsBelowLimit ==
    [][\A p \in Comms, c \in Conns :
          DedupCalled(p, c)
          => LET id == Frame(p, c).message_id
                 cache == message_cache[p]
             IN  /\ id \in cache
                    => /\ _is_duplicate_message(cache, id)
                       /\ message_cache'[p] = cache
                       /\ RepeatIsNoOp(p, id)
                 /\ id \notin cache
                    => /\ ~_is_duplicate_message(cache, id)
                       /\ Cardinality(cache) < max_cache_size
                          => /\ message_cache'[p] = cache \cup {id}
                             /\ RepeatIsNoOp(p, id)
                       /\ Cardinality(cache) >= max_cache_size
                          => /\ message_cache'[p] \subseteq cache \cup {id}
                             /\ Cardinality(message_cache'[p]) =
                                   Cardinality(cache) + 1 - EvictBatch]_vars

\* the call that found the cache full has removed a batch with the id it
\* was called for: the id is neither in the cache nor was it ever dispatched
\* before, and earlier calls have recorded and recognised the first id
C19_Witness ==
    /\ Cardinality(message_cache["A"]) = max_cache_size + 1 - EvictBatch
    /\ (max_cache_size + 1) \in evicted["A"]
    /\ 1 \in message_cache["A"]
    /\ nrecv["A"] > max_cache_size + 1

\* the positions of the frames that the step adds to the sent log of
\* connection c of p
Added(p, c) == (Len(sent[p][c]) + 1)..Len(sent'[p][c])

\* the step is the dispatch, by some receive loop of p, of a Question or
\* Answer with message id
DispatchesAcked(p, id) ==
    \E d \in Conns :
        /\ Dispatched(p, d, "question") \/ Dispatched(p, d, "answer")
        /\ Frame(p, d).message_id = id

\* some receive loop of p is in the handler call for the Question with
\* message id, which it has dispatched
HandlesQuestion(p, id) ==
    \E d \in Conns :
        /\ loop[p][d].pc = "handler"
        /\ Lower(loop[p][d].msg.type) = "question"
        /\ loop[p][d].msg.message_id = id

\* C20 (well-formed emitted frames): every frame in a sent log of p has
\* sender = p; a Question has in_reply_to unset; an Answer or Ack has
\* in_reply_to set to a message id that p has received and passed through
\* deduplication; and a step that emits an Ack is the dispatch of the
\* Question or Answer with that message_id, a step that emits an Answer is
\* the return of the handler for the dispatched Question with that
\* message_id.
C20_EmittedFramesWellFormed ==
    /\ [](\A p \in Comms, c \in Conns : \A i \in 1..Len(sent[p][c]) :
            LET f == sent[p][c][i]
            IN  /\ f.sender = p
                /\ f.type \in {"question", "answer", "ack"}
                /\ f.type = "question" => f.in_reply_to = NoId
                /\ f.type \in {"answer", "ack"}
                   => /\ f.in_reply_to # NoId
                      /\ f.in_reply_to \in message_cache[p] \cup evicted[p])
    /\ [][\A p \in Comms, c \in Conns : \A i \in Added(p, c) :
            LET f == sent'[p][c][i]
            IN  /\ f.type = "ack" => DispatchesAcked(p, f.in_reply_to)
                /\ f.type = "answer" => HandlesQuestion(p, f.in_reply_to)]_vars

\* the communicator has put a Question of its own, the Ack for a received
\* Question and the Answer to it on the same connection
C20_Witness ==
    \E c \in Conns :
        /\ \E i \in 1..Len(sent["A"][c]) :
              sent["A"][c][i].type = "question" /\ sent["A"][c][i].sender = "A"
        /\ SentAt("A", c, "ack", 1) # {}
        /\ SentAt("A", c, "answer", 1) # {}
        /\ 1 \in message_cache["A"]

\* the keys of the record that a create_message call of p has just returned
ReturnedKeys(p) == DOMAIN ret'[p].val

\* C21 as stated (message creation): create_message(content, msg_type)
\* returns a record whose content and type equal the arguments and which
\* contains a field named 'id' and a field named 'timestamp'.
C21_HasIdAndTimestamp ==
    [][\A p \in Comms, content \in MessageContents, msg_type \in MessageTypes,
          in_reply_to \in ReplyIds :
          CreateMessage(p, content, msg_type, in_reply_to)
          => /\ ret'[p].val.content = content
             /\ ret'[p].val.type = msg_type
             /\ "id" \in ReturnedKeys(p)
             /\ "timestamp" \in ReturnedKeys(p)]_vars

\* C21 (message creation, the identifier under its own key): create_message
\* returns a record whose content, type and in_reply_to equal the arguments
\* and whose sender is the communicator's name; it contains the fields
\* 'message_id' and 'timestamp' and no field named 'id'; the message_id is
\* one that no earlier call of the communicator returned.
C21_HasMessageIdAndTimestamp ==
    [][\A p \in Comms, content \in MessageContents, msg_type \in MessageTypes,
          in_reply_to \in ReplyIds :
          CreateMessage(p, content, msg_type, in_reply_to)
          => /\ ret'[p].val.content = content
             /\ ret'[p].val.type = msg_type
             /\ ret'[p].val.in_reply_to = in_reply_to
             /\ ret'[p].val.sender = p
             /\ ReturnedKeys(p) = {"message_id", "sender", "type", "content",
                                   "in_reply_to", "timestamp"}
             /\ "id" \notin ReturnedKeys(p)
             /\ ret'[p].val.message_id # NoId
             /\ ret[p].op = "create_message"
                => ret'[p].val.message_id # ret[p].val.message_id]_vars

\* the call of test_message_creation, create_message("Hello", "question"),
\* has returned, after an earlier call
C21_Witness ==
    /\ ret["A"].op = "create_message"
    /\ nextId["A"][NoConn] = 2
    /\ ret["A"].val.content = <<"Hello">>
    /\ ret["A"].val.type = "question"
    /\ ret["A"].val.in_reply_to = NoId

\* C22 as stated (Ack before the transition): when a non-duplicate Answer is
\* dispatched, the Ack for it is emitted while conversation_state and
\* pending_questions still have the values they had before the ReceiveAnswer
\* transition.
C22_AckBeforeTransition ==
    [][\A p \in Comms, c \in Conns :
          /\ Dispatched(p, c, "answer")
          /\ AckAdded(p, WebsocketArg(p, c), Frame(p, c).message_id)
          => /\ conversation_state'[p] = conversation_state[p]
             /\ pending_questions'[p] = pending_questions[p]]_vars

\* C22 (transition before the Ack): the step that dispatches a non-duplicate
\* Answer applies the ReceiveAnswer transition and then emits the Ack, so
\* that with the Ack on the wire a matching Answer has already made the
\* communicator idle and removed the entry, also when the connection is
\* closed and no Ack goes out; a non-matching Answer changes neither; and
\* the steps that follow the Ack (the handler call and its return) leave
\* conversation_state and pending_questions as they are.
C22_TransitionBeforeAck ==
    [][\A p \in Comms, c \in Conns :
          /\ Dispatched(p, c, "answer")
             => /\ Frame(p, c).in_reply_to \in Pending(p)
                   => /\ conversation_state'[p] = "idle"
                      /\ Pending(p)' = Pending(p) \ {Frame(p, c).in_reply_to}
                /\ Frame(p, c).in_reply_to \notin Pending(p)
                   => TurnStateUnchanged(p)
                /\ IF CanSend(p, WebsocketArg(p, c))
                   THEN AckAdded(p, WebsocketArg(p, c), Frame(p, c).message_id)
                   ELSE sent' = sent
          /\ loop[p][c].pc \in {"acked", "handler"}
                /\ Lower(loop[p][c].msg.type) = "answer"
                /\ loop'[p][c] # loop[p][c]
             => TurnStateUnchanged(p)]_vars

\* the Ack for the Answer to the pending question is on the wire and the
\* receive loop has not yet gone on to the handler: the communicator is idle
\* already and nothing is pending
C22_Witness ==
    \E c \in Conns :
        /\ loop["A"][c].pc = "acked"
        /\ Lower(loop["A"][c].msg.type) = "answer"
        /\ loop["A"][c].msg.in_reply_to \in returned["A"]
        /\ SentAt("A", c, "ack", loop["A"][c].msg.message_id) # {}
        /\ conversation_state["A"] = "idle"
        /\ Pending("A") = {}

\* a frame with message id is, on a connection of p other than c, waiting
\* to be received or in the middle of its dispatch
SameIdElsewhere(p, c, id) ==
    \E d \in Conns \ {c} :
        \/ inbox[p][d] # <<>> /\ Head(inbox[p][d]).message_id = id
        \/ loop[p][d].pc \in {"acked", "handler"} /\ loop[p][d].msg.message_id = id

\* the number of Acks that refer to message id in the sent logs of p
RECURSIVE AcksIn(_, _, _)
AcksIn(p, S, id) ==
    IF S = {} THEN 0
    ELSE LET c == CHOOSE x \in S : TRUE
         IN  Cardinality(SentAt(p, c, "ack", id)) + AcksIn(p, S \ {c}, id)
AcksFor(p, id) == AcksIn(p, Conns, id)

\* C23 (concurrent arrival of one id on two connections): in every state the
\* sent logs of a communicator hold at most one Ack per received message id
\* and its handlers have been invoked at most once per id; and when a
\* well-formed frame is received on one connection while a frame with the
\* same message_id is waiting or being dispatched on another, then, the id
\* being new, it is recorded and the frame dispatched (a Question or Answer
\* acknowledged on an open connection, the registered handler scheduled),
\* and, the id being recorded, the frame is dropped: no frame sent, no
\* handler invoked or scheduled, no attribute changed.
C23_OneDispatchPerId ==
    /\ [](\A p \in Comms : \A id \in EnvIds :
            AcksFor(p, id) <= 1 /\ Invocations(p, id) <= 1)
    /\ [][\A p \in Comms, c \in Conns :
            /\ Received(p, c)
            /\ ~Malformed(Frame(p, c)) /\ HasKeys(Frame(p, c))
            /\ SameIdElsewhere(p, c, Frame(p, c).message_id)
            => LET m == Frame(p, c)
                   w == WebsocketArg(p, c)
               IN  IF m.message_id \notin message_cache[p]
                   THEN /\ m.message_id \in message_cache'[p]
                        /\ Lower(m.type) \in AckedTypes /\ CanSend(p, w)
                           => AckAdded(p, w, m.message_id)
                        /\ HandlerSet(p, Lower(m.type))
                           => /\ loop'[p][c].pc \in {"acked", "handler"}
                              /\ loop'[p][c].msg = m
                   ELSE /\ sent' = sent
                        /\ calls' = calls
                        /\ loop' = loop
                        /\ attrs' = attrs]_vars

\* two Questions with the same message_id were in flight to an accepted and
\* an outbound connection; one receive loop is suspended after its Ack, the
\* other has received its frame meanwhile and dropped it: one Ack is out
C23_Witness ==
    \E c \in Conns :
        /\ limit = MixedRuns
        /\ loop["A"][c].pc = "acked"
        /\ loop["A"][c].msg.type = "question"
        /\ nrecv["A"] = 2
        /\ \A d \in Conns : inbox["A"][d] = <<>>
        /\ message_cache["A"] = {loop["A"][c].msg.message_id}
        /\ AcksFor("A", loop["A"][c].msg.message_id) = 1
        /\ \A d \in Conns \ {c} : loop["A"][d].pc \in {"none", "recv"}

\* C24 as stated (broadcast while connections come and go): when a
\* send_question call suspended in its broadcast resumes after a peer
\* connection was accepted or closed, it does not fail with an error: it
\* goes on with the broadcast or returns, and when it returns it returns the
\* question's message id; a send to a closed connection puts no frame on it
\* and raises nothing.
C24_BroadcastSurvivesChurn ==
    [][\A p \in Comms : \A b \in bcast[p] :
          broadcast_message(p, b) /\ connected_clients[p] # b.members
          => /\ ret'[p].val # "RuntimeError"
             /\ (\A x \in bcast'[p] : x.msg # b.msg)
                => /\ ret'[p] = Ret("send_question", "id")
                   /\ b.msg.message_id \in returned'[p]
             /\ \A c \in Conns : conn[p][c] # "open" => sent'[p][c] = sent[p][c]]_vars

\* the EvictBatch ids of S that were recorded first; the peer that fills the
\* cache sends its ids in ascending order, so these are the lowest
OldestBatch(S) == {x \in S : RankIn(S, x) < EvictBatch}

\* C25 as stated (oldest-first eviction): when recording a new id makes the
\* cache exceed max_cache_size, the batch removed consists of the EvictBatch
\* earliest-recorded ids; so the id just recorded stays in the cache and an
\* immediate repeat of it is reported as a duplicate.
C25_EvictsOldestBatch ==
    [][\A p \in Comms, c \in Conns :
          /\ DedupCalled(p, c)
          /\ Frame(p, c).message_id \notin message_cache[p]
          /\ Cardinality(message_cache[p]) >= max_cache_size
          => LET id == Frame(p, c).message_id
                 added == message_cache[p] \cup {id}
             IN  /\ message_cache'[p] = added \ OldestBatch(added)
                 /\ id \in message_cache'[p]
                 /\ RepeatIsNoOp(p, id)]_vars

\* the frames that the communicator at the other end of connection c of p
\* has put on the wire, in the order of its sends
SentByPeer(p, c) == sent[peer[p][c].comm][peer[p][c].conn]

\* how many of them the receive loop of c has taken so far
Taken(p, c) == Len(SentByPeer(p, c)) - Len(inbox[p][c])

\* C26 (one dispatch at a time per connection, in send order): on a
\* connection between two communicators the frames not yet received are the
\* last ones the peer sent, in the order of the sends; the dispatch of
\* exactly the frames before them has begun (their ids are recorded), the
\* frame in mid-dispatch, if any, is the last one taken and every earlier
\* one has been dispatched to the end; and a receive loop takes a frame only
\* when it is not inside the dispatch of an earlier one, the frame taken
\* being the one sent next after it.
C26_InOrderOneAtATime ==
    /\ [](\A p \in Comms, c \in Conns :
            peer[p][c].comm \in Comms
            => LET s == SentByPeer(p, c)
                   k == Taken(p, c)
               IN  /\ k >= 0
                   /\ inbox[p][c] = SubSeq(s, k + 1, Len(s))
                   /\ \A i \in 1..Len(s) :
                         (s[i].message_id \in message_cache[p]) <=> (i <= k)
                   /\ loop[p][c].pc \in {"acked", "handler"}
                      => k > 0 /\ loop[p][c].msg = s[k])
    /\ [][\A p \in Comms, c \in Conns :
            Received(p, c)
            => /\ loop[p][c].pc = "recv"
               /\ loop[p][c].msg = NoMsg
               /\ peer[p][c].comm \in Comms
                  => Frame(p, c) = SentByPeer(p, c)[Taken(p, c) + 1]]_vars

\* two receive loops of one communicator are in mid-dispatch at the same
\* time, one of them with the second frame of its connection while a third
\* is waiting behind it
C26_Witness ==
    \E c, d \in Conns :
        /\ c # d
        /\ loop["A"][c].pc \in {"acked", "handler"}
        /\ loop["A"][d].pc \in {"acked", "handler"}
        /\ Taken("A", c) = 2
        /\ inbox["A"][c] # <<>>

\* the outbound connections of p that are open, and those whose
\* _client_message_handler task is running
LiveOutbound(p) == {c \in ClientConns : conn[p][c] = "open"}
RunningClientLoops(p) == {c \in ClientConns : loop[p][c].pc \notin {"none", "ended"}}

\* C27 as stated (one outbound connection): after any sequence of
\* connect_as_client calls a communicator has at most one live outbound
\* connection and at most one running client receive loop, and every Ack
\* and Answer for a message received by a client receive loop is sent on
\* the connection the message arrived on.
C27_OneOutboundConnection ==
    /\ [](\A p \in Comms :
            /\ Cardinality(LiveOutbound(p)) <= 1
            /\ Cardinality(RunningClientLoops(p)) <= 1)
    /\ [][\A p \in Comms, c \in ClientConns :
            /\ (Dispatched(p, c, "question") \/ Dispatched(p, c, "answer"))
                  /\ conn[p][c] = "open"
               => OneAckOn(p, c, Frame(p, c).message_id)
            /\ Lower(loop[p][c].msg.type) = "question"
                  /\ conn[p][c] = "open"
                  /\ HandlerReturn(p, c, "reply")
               => OneAnswerOn(p, c, loop[p][c].msg.message_id,
                              HandlerReply(loop[p][c].msg))]_vars

\* the ids of the frames of type t in the sent log of connection c of p
IdsOfType(p, c, t) ==
    {sent[p][c][i].message_id :
        i \in {j \in 1..Len(sent[p][c]) : sent[p][c][j].type = t}}

\* nothing is in flight and no coroutine has work to do
Quiescent ==
    \A p \in Comms :
        /\ bcast[p] = {}
        /\ \A c \in Conns : inbox[p][c] = <<>> /\ loop[p][c].pc \in {"none", "recv"}

\* the exchange for question q of p is complete on connection c: the
\* Question and the Ack of the Answer from p, the Ack of the Question and
\* the Answer from the peer
ExchangeComplete(p, c, q) ==
    LET r == peer[p][c].comm
        d == peer[p][c].conn
    IN  /\ r \in Comms
        /\ q \in IdsOfType(p, c, "question")
        /\ Cardinality(SentAt(r, d, "ack", q)) = 1
        /\ Cardinality(SentAt(r, d, "answer", q)) = 1
        /\ \A i \in SentAt(r, d, "answer", q) :
              Cardinality(SentAt(p, c, "ack", sent[r][d][i].message_id)) = 1

\* C28 (no ping-pong): between two connected communicators whose handlers
\* only return, every frame on a connection is a Question of its sender, the
\* one Ack or the one Answer to a Question the peer sent on that connection,
\* or the one Ack of an Answer the peer sent on it; no Ack is acknowledged
\* or answered and no Answer is answered, so a question puts at most four
\* frames on a connection; and after a send_question has returned, the
\* system reaches a state with the four frames exchanged, nothing in flight
\* and every receive loop waiting.
C28_NoPingPong ==
    /\ [](\A p \in Comms, c \in Conns :
            LET r == peer[p][c].comm
                d == peer[p][c].conn
            IN  /\ r \notin Comms => sent[p][c] = <<>>
                /\ r \in Comms
                   => /\ \A i \in 1..Len(sent[p][c]) :
                            LET f == sent[p][c][i]
                            IN  /\ f.type = "question"
                                   => /\ f.message_id \in QuestionIds(p)
                                      /\ \A j \in 1..Len(sent[p][c]) :
                                            sent[p][c][j].message_id = f.message_id
                                            => j = i
                                /\ f.type = "answer"
                                   => f.in_reply_to \in IdsOfType(r, d, "question")
                                /\ f.type = "ack"
                                   => f.in_reply_to \in IdsOfType(r, d, "question")
                                                        \cup IdsOfType(r, d, "answer")
                      /\ \A id \in IdsOfType(r, d, "question") :
                            /\ Cardinality(SentAt(p, c, "ack", id)) <= 1
                            /\ Cardinality(SentAt(p, c, "answer", id)) <= 1
                      /\ \A id \in IdsOfType(r, d, "answer") :
                            /\ Cardinality(SentAt(p, c, "ack", id)) <= 1
                            /\ SentAt(p, c, "answer", id) = {}
                      /\ \A id \in IdsOfType(r, d, "ack") :
                            SentAt(p, c, "ack", id) \cup SentAt(p, c, "answer", id) = {}
                      /\ Len(sent[p][c]) + Len(sent[r][d])
                            <= 4 * Cardinality(IdsOfType(p, c, "question")
                                               \cup IdsOfType(r, d, "question")))
    /\ \A p \in Comms : \A q \in QuestionIds(p) :
          (q \in returned[p])
             ~> (Quiescent /\ \E c \in Conns : ExchangeComplete(p, c, q))

\* one question of A has been exchanged in full, four frames on its
\* connection and none on the other, and the system is at rest
C28_Witness ==
    /\ Quiescent
    /\ nsend["A"] = 1 /\ nsend["B"] = 0
    /\ \E c \in ServerConns : \E q \in returned["A"] :
          /\ ExchangeComplete("A", c, q)
          /\ Len(sent["A"][c]) = 2
          /\ Len(SentByPeer("A", c)) = 2
          /\ \A d \in Conns \ {c} : sent["A"][d] = <<>>

\* both communicators are waiting for an answer
BothWaiting == \A p \in Comms : conversation_state[p] = "waiting_for_answer"

\* C29 (questions are handled in any state): the dispatch of a Question
\* leaves conversation_state and pending_questions unchanged and, whatever
\* their values, sends the Ack on the connection the Question arrived on and
\* goes on to the registered handler; the handler call and its return leave
\* them unchanged too, and the reply is sent as the Answer; and when both
\* communicators are waiting for an answer at the same time, each of them
\* is idle again later.
C29_QuestionsHandledWhileWaiting ==
    /\ [][\A p \in Comms, c \in Conns :
            /\ Dispatched(p, c, "question")
               => /\ TurnStateUnchanged(p)
                  /\ conn[p][c] = "open" => AckAdded(p, c, Frame(p, c).message_id)
                  /\ on_question_received[p]
                     => loop'[p][c].pc = "acked" /\ loop'[p][c].msg = Frame(p, c)
            /\ loop[p][c].pc \in {"acked", "handler"}
                  /\ Lower(loop[p][c].msg.type) = "question"
                  /\ loop'[p][c] # loop[p][c]
               => /\ TurnStateUnchanged(p)
                  /\ loop[p][c].pc = "handler" /\ conn[p][c] = "open"
                     => OneAnswerOn(p, c, loop[p][c].msg.message_id,
                                    HandlerReply(loop[p][c].msg))]_vars
    /\ \A p \in Comms : BothWaiting ~> (conversation_state[p] = "idle")

\* both communicators have sent a question and are waiting, and A has
\* acknowledged and answered the question of B meanwhile
C29_Witness ==
    /\ BothWaiting
    /\ \E c \in Conns : \E q \in QuestionIds("B") :
          /\ SentAt("A", c, "ack", q) # {}
          /\ SentAt("A", c, "answer", q) # {}
    /\ \A c \in Conns : loop["A"][c].pc \in {"none", "recv"}

\* the questions of p that are pending although the send_question call that
\* made them has returned without having put them on any connection
Unsent(p) == (Pending(p) \cap returned[p]) \ KnownQuestions(p)

\* C30 (a question sent to nobody): a send_question call without target
\* made in state idle while connected_clients is empty puts the question
\* into pending_questions, sets waiting_for_answer and returns the
\* question's id at once, and puts no frame on any connection, the outbound
\* one included; and a pending question that send_question has returned
\* without putting it on a connection stays pending, with the communicator
\* not ready to send, in every later step, whatever is received, sent,
\* connected or stopped.
C30_UnsentQuestionBlocks ==
    [][\A p \in Comms :
          /\ /\ SendQuestionCalled(p)
             /\ is_ready_to_send_question(p)
             /\ ret'[p].target = NoConn
             /\ connected_clients[p] = {}
             => /\ ret'[p] = Ret("send_question", "id")
                /\ Cardinality(returned'[p] \ returned[p]) = 1
                /\ Pending(p)' = Pending(p) \cup (returned'[p] \ returned[p])
                /\ conversation_state'[p] = "waiting_for_answer"
                /\ sent' = sent
                /\ inbox' = inbox
                /\ bcast' = bcast
          /\ \A q \in Unsent(p) :
                /\ q \in Unsent(p)'
                /\ ~is_ready_to_send_question(p)
                /\ ~is_ready_to_send_question(p)']_vars

\* a question was sent to nobody; since then a peer has connected, an
\* Answer from it has been dispatched and a second send_question has been
\* refused: the question is still pending and no Question is on any wire
C30_Witness ==
    /\ Unsent("A") # {}
    /\ KnownQuestions("A") = {}
    /\ ret["A"] = Ret("send_question", "None")
    /\ \E e \in BagToSet(calls["A"]) : e.handler = "on_answer_received"
    /\ \E c \in ServerConns : conn["A"][c] = "open" /\ SentAt("A", c, "ack", 1) # {}
    /\ conversation_state["A"] = "waiting_for_answer"

====
